---- MODULE Spec2Model ----
(***************************************************************************)
(* Roof synthesis (Nevim.py) and solar-suitability scoring                 *)
(* (testovani_08_05.py, Ok.py) as a state machine.                         *)
(*                                                                         *)
(* Number representation.  The program computes in floating point; the     *)
(* model computes in fixed point:                                          *)
(*   - lengths and coordinates are whole centimetres (10 m = 1000),        *)
(*   - angles are whole degrees,                                           *)
(*   - ratios (sin, cos, tan, coverage, slope of a flat roof, the scorer's *)
(*     factors and suitability) are thousandths (0.25 = 250).              *)
(* A product of a length and a ratio is divided by 1000 afterwards.        *)
(***************************************************************************)
EXTENDS Integers, Sequences, FiniteSets, TLC

VARIABLES
    footprint,      \* the footprint handed to the generators
    height,         \* base height of the roof
    roof_type,      \* archetype tag handed to create_roof
    roof_params,    \* parameter dictionary handed to create_roof
    roof_faces,     \* faces returned by create_roof
    solar_panels,   \* panel faces returned by create_roof
    status,         \* position of the run: "ready", "built", then "props",
                    \* "access", "scored" (testovani_08_05) or "grids",
                    \* "analysed", "ranked" (Ok), or "failed"
    raised,         \* the exception the run ended with, "" if none
    roof_props,     \* testovani_08_05: the list of per-roof dictionaries
    caught,         \* testovani_08_05 main: the exception it caught, "" if none
    analysis_grids, \* Ok: one sensor direction per sensor grid
    analysis_results, \* Ok: per grid, the percentage of sunlit hours
    solar_potential, \* Ok: the list analyze_solar_potential returns
    analysis_period, \* the hours of the analysis period the scorer was given
    printed,        \* the messages printed so far
    rooms,          \* create_building: the rooms it returns, one per floor
    given_normal,   \* the face normal handed to the azimuth computations
    azimuths,       \* the azimuths the two scorers return for given_normal
    num_buildings,  \* create_city: the number of buildings asked for
    city_size,      \* create_city: the side of the city
    roof_params_template, \* create_city: its roof_params dictionary, one
                    \* parameter dictionary per roof type
    buildings_done, \* create_city: the buildings created so far (loop index)
    building_assignment, \* create_city: what the last create_building call
                    \* was given, << >> before the first call
    building_raised, \* create_city: the exception the last create_building
                    \* call ended with, "" if none
    all_rooms,      \* create_city: the number of rooms collected
    city_status,    \* create_city: "idle", "placing", "returned", "aborted"
    city_raised,    \* create_city: the exception it ended with, "" if none
    grid_positions, \* create_city: the cells of the grid in the order the
                    \* loop hands them out
    earlier_run     \* the arguments and the buildings of an earlier call of
                    \* create_city in the same process, << >> if none

vars == <<footprint, height, roof_type, roof_params, roof_faces,
          solar_panels, status, raised, roof_props, caught,
          analysis_grids, analysis_results, solar_potential,
          analysis_period, printed, rooms, given_normal, azimuths,
          num_buildings, city_size, roof_params_template, buildings_done,
          building_assignment, building_raised, all_rooms,
          city_status, city_raised, grid_positions, earlier_run>>

\* The variables of the azimuth computations on their own.
azimuth_vars == <<given_normal, azimuths>>

\* The variables of create_city.
city_vars == <<num_buildings, city_size, roof_params_template,
               buildings_done, building_assignment, building_raised,
               all_rooms, city_status, city_raised, grid_positions,
               earlier_run>>

\* create_city has not been called.
CityIdle ==
    /\ num_buildings = 0
    /\ city_size = 0
    /\ roof_params_template = << >>
    /\ buildings_done = 0
    /\ building_assignment = << >>
    /\ building_raised = ""
    /\ all_rooms = 0
    /\ city_status = "idle"
    /\ city_raised = ""
    /\ grid_positions = << >>
    /\ earlier_run = << >>

\* The variables of the testovani_08_05 run.
testovani_vars == <<roof_props, caught>>

\* The variables of the Ok run.
ok_vars == <<analysis_grids, analysis_results, solar_potential>>

----------------------------------------------------------------------------
(* Arithmetic helpers *)

Abs(a) == IF a < 0 THEN 0 - a ELSE a

Min2(a, b) == IF a < b THEN a ELSE b

Max2(a, b) == IF a > b THEN a ELSE b

\* Python's int(a / b): the quotient truncated towards zero (b # 0).
IntDiv(a, b) ==
    IF (a >= 0 /\ b > 0) \/ (a <= 0 /\ b < 0)
    THEN Abs(a) \div Abs(b)
    ELSE 0 - (Abs(a) \div Abs(b))

\* A length times a ratio in thousandths (float product, rounded to the cm).
Scaled(len, ratio) == IntDiv(len * ratio, 1000)

RECURSIVE SqrtSearch(_, _, _)
SqrtSearch(n, lo, hi) ==
    IF lo >= hi THEN lo
    ELSE LET mid == (lo + hi + 1) \div 2
         IN  IF mid * mid <= n THEN SqrtSearch(n, mid, hi)
             ELSE SqrtSearch(n, lo, mid - 1)

\* math.sqrt, rounded down to a whole number.
Sqrt(n) == SqrtSearch(n, 0, Min2(n, 46340))

RECURSIVE SeqSum(_)
SeqSum(s) == IF s = <<>> THEN 0 ELSE Head(s) + SeqSum(Tail(s))

RECURSIVE SeqMin(_)
SeqMin(s) == IF Len(s) = 1 THEN s[1] ELSE Min2(Head(s), SeqMin(Tail(s)))

RECURSIVE SeqMax(_)
SeqMax(s) == IF Len(s) = 1 THEN s[1] ELSE Max2(Head(s), SeqMax(Tail(s)))

\* sin of 0..90 degrees in thousandths.
SinTable ==
    << 0, 17, 35, 52, 70, 87, 105, 122, 139, 156,
       174, 191, 208, 225, 242, 259, 276, 292, 309, 326,
       342, 358, 375, 391, 407, 423, 438, 454, 469, 485,
       500, 515, 530, 545, 559, 574, 588, 602, 616, 629,
       643, 656, 669, 682, 695, 707, 719, 731, 743, 755,
       766, 777, 788, 799, 809, 819, 829, 839, 848, 857,
       866, 875, 883, 891, 899, 906, 914, 921, 927, 934,
       940, 946, 951, 956, 961, 966, 970, 974, 978, 982,
       985, 988, 990, 993, 995, 996, 998, 999, 999, 1000,
       1000 >>

\* tan of 0..89 degrees in thousandths.
TanTable ==
    << 0, 17, 35, 52, 70, 87, 105, 123, 141, 158,
       176, 194, 213, 231, 249, 268, 287, 306, 325, 344,
       364, 384, 404, 424, 445, 466, 488, 510, 532, 554,
       577, 601, 625, 649, 675, 700, 727, 754, 781, 810,
       839, 869, 900, 933, 966, 1000, 1036, 1072, 1111, 1150,
       1192, 1235, 1280, 1327, 1376, 1428, 1483, 1540, 1600, 1664,
       1732, 1804, 1881, 1963, 2050, 2145, 2246, 2356, 2475, 2605,
       2747, 2904, 3078, 3271, 3487, 3732, 4011, 4331, 4705, 5145,
       5671, 6314, 7115, 8144, 9514, 11430, 14301, 19081, 28636, 57290 >>

\* math.sin(math.radians(a)) for a in 0..180.
Sin(a) == IF a <= 90 THEN SinTable[a + 1] ELSE SinTable[180 - a + 1]

\* math.cos(math.radians(a)) for a in 0..180.
Cos(a) == IF a <= 90 THEN SinTable[90 - a + 1] ELSE 0 - SinTable[a - 90 + 1]

\* math.tan(math.radians(a)) for a in 0..89.
Tan(a) == TanTable[a + 1]

\* math.acos of a cosine c in 0..1000, in whole degrees: the first angle
\* whose cosine does not exceed c.
AcosPos(c) == CHOOSE k \in 0..90 :
                 /\ Cos(k) <= c
                 /\ \A j \in 0..90 : Cos(j) <= c => k <= j

\* math.acos of a cosine in thousandths, in whole degrees 0..180.
Acos(c) == IF c >= 0 THEN AcosPos(c) ELSE 180 - AcosPos(0 - c)

----------------------------------------------------------------------------
(* Geometry: ladybug_geometry Point3D and Face3D as used by the program *)

Point3D(px, py, pz) == [x |-> px, y |-> py, z |-> pz]

\* Face3D(pts): the face keeps the vertex list in the order given.
Face3D(pts) == pts

Xs(fp) == [i \in 1..Len(fp) |-> fp[i].x]

Ys(fp) == [i \in 1..Len(fp) |-> fp[i].y]

\* The bounding box every generator but the flat one starts from.
BBox(fp) == [min_x |-> SeqMin(Xs(fp)), max_x |-> SeqMax(Xs(fp)),
             min_y |-> SeqMin(Ys(fp)), max_y |-> SeqMax(Ys(fp))]

\* dict.get(key, default)
Get(p, k, d) == IF k \in DOMAIN p THEN p[k] ELSE d

----------------------------------------------------------------------------
(* Roof generators *)

\* create_flat_roof with the roof thickness left out of the roof level.
create_flat_roof_NoThickness(fp, h, roof_thickness, slope) ==
    LET center_x == IntDiv(SeqSum(Xs(fp)), Len(fp))
        center_y == IntDiv(SeqSum(Ys(fp)), Len(fp))
        dist(pt) == Sqrt((pt.x - center_x) * (pt.x - center_x)
                         + (pt.y - center_y) * (pt.y - center_y))
        roof_z(pt) == h - Scaled(dist(pt), slope)
    IN  Face3D([i \in 1..Len(fp) |->
                   Point3D(fp[i].x, fp[i].y, roof_z(fp[i]))])

create_flat_roof(fp, h, roof_thickness, slope) ==
    LET center_x == IntDiv(SeqSum(Xs(fp)), Len(fp))
        center_y == IntDiv(SeqSum(Ys(fp)), Len(fp))
        dist(pt) == Sqrt((pt.x - center_x) * (pt.x - center_x)
                         + (pt.y - center_y) * (pt.y - center_y))
        roof_z(pt) == h + roof_thickness - Scaled(dist(pt), slope)
    IN  Face3D([i \in 1..Len(fp) |->
                   Point3D(fp[i].x, fp[i].y, roof_z(fp[i]))])

\* GableRoofHeight with the angle overriding the explicit height, as the
\* shed roof does.
GableRoofHeight_AngleOnly(fp, roof_height, axis, slope_angle) ==
    LET b == BBox(fp)
        width == b.max_x - b.min_x
        depth == b.max_y - b.min_y
        span == IF axis = "y" THEN IntDiv(width, 2) ELSE IntDiv(depth, 2)
    IN  Scaled(span, Tan(slope_angle))

\* The ridge height create_gable_roof settles on.
GableRoofHeight(fp, roof_height, axis, slope_angle) ==
    LET b == BBox(fp)
        width == b.max_x - b.min_x
        depth == b.max_y - b.min_y
        span == IF axis = "y" THEN IntDiv(width, 2) ELSE IntDiv(depth, 2)
        adjusted_height == Scaled(span, Tan(slope_angle))
    IN  Max2(roof_height, adjusted_height)

create_gable_roof(fp, h, roof_height, axis, slope_angle) ==
    LET b == BBox(fp)
        rh == GableRoofHeight(fp, roof_height, axis, slope_angle)
        mid_x == IntDiv(b.min_x + b.max_x, 2)
        mid_y == IntDiv(b.min_y + b.max_y, 2)
        ridge_pt1 == IF axis = "y" THEN Point3D(mid_x, b.min_y, h + rh)
                                   ELSE Point3D(b.min_x, mid_y, h + rh)
        ridge_pt2 == IF axis = "y" THEN Point3D(mid_x, b.max_y, h + rh)
                                   ELSE Point3D(b.max_x, mid_y, h + rh)
        roof_face1 ==
            IF axis = "y"
            THEN Face3D(<<Point3D(b.min_x, b.min_y, h),
                          Point3D(b.min_x, b.max_y, h), ridge_pt2, ridge_pt1>>)
            ELSE Face3D(<<Point3D(b.min_x, b.min_y, h),
                          Point3D(b.max_x, b.min_y, h), ridge_pt2, ridge_pt1>>)
        roof_face2 ==
            IF axis = "y"
            THEN Face3D(<<Point3D(b.max_x, b.min_y, h),
                          Point3D(b.max_x, b.max_y, h), ridge_pt2, ridge_pt1>>)
            ELSE Face3D(<<Point3D(b.min_x, b.max_y, h),
                          Point3D(b.max_x, b.max_y, h), ridge_pt2, ridge_pt1>>)
        gable1 ==
            IF axis = "y"
            THEN Face3D(<<Point3D(b.min_x, b.min_y, h),
                          Point3D(b.max_x, b.min_y, h), ridge_pt1>>)
            ELSE Face3D(<<Point3D(b.min_x, b.min_y, h),
                          Point3D(b.min_x, b.max_y, h), ridge_pt1>>)
        gable2 ==
            IF axis = "y"
            THEN Face3D(<<Point3D(b.min_x, b.max_y, h),
                          Point3D(b.max_x, b.max_y, h), ridge_pt2>>)
            ELSE Face3D(<<Point3D(b.max_x, b.min_y, h),
                          Point3D(b.max_x, b.max_y, h), ridge_pt2>>)
    IN  <<roof_face1, roof_face2>> \o <<gable1, gable2>>

\* HipRoofHeight with the span taken from the larger dimension.
HipRoofHeight_LongSide(fp, roof_height, slope_angle) ==
    LET b == BBox(fp)
        width == b.max_x - b.min_x
        depth == b.max_y - b.min_y
        span == IntDiv(Max2(width, depth), 2)
        adjusted_height == Scaled(span, Tan(slope_angle))
    IN  Max2(roof_height, adjusted_height)

\* The apex height create_hip_roof settles on.
HipRoofHeight(fp, roof_height, slope_angle) ==
    LET b == BBox(fp)
        width == b.max_x - b.min_x
        depth == b.max_y - b.min_y
        span == IntDiv(Min2(width, depth), 2)
        adjusted_height == Scaled(span, Tan(slope_angle))
    IN  Max2(roof_height, adjusted_height)

\* The four corners of the bounding box, counter-clockwise from (min, min).
CornerPts(b, z) ==
    << Point3D(b.min_x, b.min_y, z), Point3D(b.max_x, b.min_y, z),
       Point3D(b.max_x, b.max_y, z), Point3D(b.min_x, b.max_y, z) >>

create_hip_roof(fp, h, roof_height, slope_angle) ==
    LET b == BBox(fp)
        rh == HipRoofHeight(fp, roof_height, slope_angle)
        center_x == IntDiv(b.min_x + b.max_x, 2)
        center_y == IntDiv(b.min_y + b.max_y, 2)
        peak_pt == Point3D(center_x, center_y, h + rh)
        corner_pts == CornerPts(b, h)
    IN  [i \in 1..4 |->
            Face3D(<<corner_pts[i], corner_pts[(i % 4) + 1], peak_pt>>)]

\* create_pyramid_roof forwards the roof height only: create_hip_roof runs
\* with its own default slope angle.
create_pyramid_roof(fp, h, roof_height) ==
    create_hip_roof(fp, h, roof_height, 25)

\* ShedRoofHeight with the gable rule: the larger of the explicit and the
\* angle-derived height.
ShedRoofHeight_MaxRule(fp, roof_height, slope_direction, slope_angle) ==
    LET b == BBox(fp)
        span == IF slope_direction \in {"north", "south"}
                THEN b.max_y - b.min_y
                ELSE b.max_x - b.min_x
    IN  IF slope_angle # <<>>
        THEN Max2(roof_height, Scaled(span, Tan(slope_angle[1])))
        ELSE roof_height

\* The height difference create_shed_roof settles on; slope_angle is <<>>
\* for None and <<a>> for an angle a.
ShedRoofHeight(fp, roof_height, slope_direction, slope_angle) ==
    LET b == BBox(fp)
        span == IF slope_direction \in {"north", "south"}
                THEN b.max_y - b.min_y
                ELSE b.max_x - b.min_x
    IN  IF slope_angle # <<>> THEN Scaled(span, Tan(slope_angle[1]))
        ELSE roof_height

create_shed_roof(fp, h, roof_height, slope_direction, slope_angle) ==
    LET b == BBox(fp)
        rh == ShedRoofHeight(fp, roof_height, slope_direction, slope_angle)
    IN  IF slope_direction = "north"
        THEN Face3D(<<Point3D(b.min_x, b.min_y, h),
                      Point3D(b.max_x, b.min_y, h),
                      Point3D(b.max_x, b.max_y, h + rh),
                      Point3D(b.min_x, b.max_y, h + rh)>>)
        ELSE IF slope_direction = "south"
        THEN Face3D(<<Point3D(b.min_x, b.min_y, h + rh),
                      Point3D(b.max_x, b.min_y, h + rh),
                      Point3D(b.max_x, b.max_y, h),
                      Point3D(b.min_x, b.max_y, h)>>)
        ELSE IF slope_direction = "east"
        THEN Face3D(<<Point3D(b.min_x, b.min_y, h),
                      Point3D(b.max_x, b.min_y, h + rh),
                      Point3D(b.max_x, b.max_y, h + rh),
                      Point3D(b.min_x, b.max_y, h)>>)
        ELSE Face3D(<<Point3D(b.min_x, b.min_y, h + rh),
                      Point3D(b.max_x, b.min_y, h),
                      Point3D(b.max_x, b.max_y, h),
                      Point3D(b.min_x, b.max_y, h + rh)>>)

create_mansard_roof(fp, h, roof_height, lower_slope, upper_slope) ==
    LET b == BBox(fp)
        width == b.max_x - b.min_x
        depth == b.max_y - b.min_y
        lower_height == Scaled(roof_height, 700)
        inset_x == Scaled(width, 250)
        inset_y == Scaled(depth, 250)
        corner_pts == CornerPts(b, h)
        mid_pts ==
            << Point3D(b.min_x + inset_x, b.min_y + inset_y, h + lower_height),
               Point3D(b.max_x - inset_x, b.min_y + inset_y, h + lower_height),
               Point3D(b.max_x - inset_x, b.max_y - inset_y, h + lower_height),
               Point3D(b.min_x + inset_x, b.max_y - inset_y, h + lower_height) >>
        lower == [i \in 1..4 |->
                    Face3D(<<corner_pts[i], corner_pts[(i % 4) + 1],
                             mid_pts[(i % 4) + 1], mid_pts[i]>>)]
    IN  lower \o <<Face3D(mid_pts)>>

create_butterfly_roof(fp, h, roof_height, valley_depth) ==
    LET b == BBox(fp)
        center_x == IntDiv(b.min_x + b.max_x, 2)
        valley_pt1 == Point3D(center_x, b.min_y, h + roof_height - valley_depth)
        valley_pt2 == Point3D(center_x, b.max_y, h + roof_height - valley_depth)
        ridge_pt1 == Point3D(b.min_x, b.min_y, h + roof_height)
        ridge_pt2 == Point3D(b.max_x, b.min_y, h + roof_height)
        ridge_pt3 == Point3D(b.max_x, b.max_y, h + roof_height)
        ridge_pt4 == Point3D(b.min_x, b.max_y, h + roof_height)
    IN  << Face3D(<<ridge_pt1, valley_pt1, valley_pt2, ridge_pt4>>),
           Face3D(<<valley_pt1, ridge_pt2, ridge_pt3, valley_pt2>>) >>

\* width / section_width divides by zero when section_width is 0.
SawtoothRaises(section_width) == section_width = 0

\* Number of sections create_sawtooth_roof cuts the width into.
SawtoothSections(fp, section_width) ==
    LET b == BBox(fp)
    IN  Max2(2, IntDiv(b.max_x - b.min_x, section_width))

\* x of the i-th section boundary (i = 0 is min_x): min_x + i * (width / n).
SawtoothX(fp, section_width, i) ==
    LET b == BBox(fp)
        n == SawtoothSections(fp, section_width)
    IN  b.min_x + IntDiv(i * (b.max_x - b.min_x), n)

create_sawtooth_roof(fp, h, section_width, roof_height, slope_angle) ==
    LET b == BBox(fp)
        num_sections == SawtoothSections(fp, section_width)
        section(i) ==
            LET x1 == SawtoothX(fp, section_width, i)
                x2 == SawtoothX(fp, section_width, i + 1)
            IN  IF i % 2 = 0
                THEN Face3D(<<Point3D(x1, b.min_y, h),
                              Point3D(x2, b.min_y, h),
                              Point3D(x2, b.max_y, h),
                              Point3D(x1, b.max_y, h + roof_height)>>)
                ELSE Face3D(<<Point3D(x1, b.min_y, h + roof_height),
                              Point3D(x2, b.min_y, h),
                              Point3D(x2, b.max_y, h),
                              Point3D(x1, b.max_y, h + roof_height)>>)
    IN  [k \in 1..num_sections |-> section(k - 1)]

create_curved_roof(fp, h, roof_height, num_segments) ==
    LET b == BBox(fp)
        center_x == IntDiv(b.min_x + b.max_x, 2)
        width == b.max_x - b.min_x
        segment(i) ==
            LET angle1 == IntDiv(180 * i, num_segments)
                angle2 == IntDiv(180 * (i + 1), num_segments)
                height1 == h + Scaled(roof_height, Sin(angle1))
                height2 == h + Scaled(roof_height, Sin(angle2))
                x1 == center_x - Scaled(IntDiv(width, 2), Cos(angle1))
                x2 == center_x - Scaled(IntDiv(width, 2), Cos(angle2))
            IN  Face3D(<<Point3D(x1, b.min_y, height1),
                         Point3D(x2, b.min_y, height2),
                         Point3D(x2, b.max_y, height2),
                         Point3D(x1, b.max_y, height1)>>)
    IN  [k \in 1..num_segments |-> segment(k - 1)]

----------------------------------------------------------------------------
(* Panel layout *)

panel_width == 170

panel_height == 100

panel_thickness == 5

panel_spacing == 10

max_panels_x(fp) == LET b == BBox(fp) IN IntDiv(b.max_x - b.min_x, panel_width)

max_panels_y(fp) == LET b == BBox(fp) IN IntDiv(b.max_y - b.min_y, panel_height)

\* int(total_max_panels * coverage), coverage in thousandths.
num_panels(fp, coverage) ==
    IntDiv(max_panels_x(fp) * max_panels_y(fp) * coverage, 1000)

\* PanelsPlaced without the bound of the double loop: as many panels as
\* num_panels asks for.
PanelsPlaced_Unclamped(fp, coverage) == Max2(0, num_panels(fp, coverage))

\* Number of panels the double loop places: it visits every slot once, column
\* by column, and fills slots while panels_placed < num_panels.
PanelsPlaced(fp, coverage) ==
    Max2(0, Min2(num_panels(fp, coverage),
                 max_panels_x(fp) * max_panels_y(fp)))

\* x of the origin of the panel in column i.
PanelOriginX(min_x, i) == min_x + i * (panel_width + panel_spacing)

\* y of the origin of the panel in row j.
PanelOriginY(min_y, j) == min_y + j * (panel_height + panel_spacing)

\* PanelLift with the panel height taken as the depth for every orientation.
PanelLift_HeightOnly(tilt_angle, orientation, k) ==
    LET up_h == Scaled(panel_height, Sin(tilt_angle))
    IN  IF orientation = "south" THEN (IF k \in {3, 4} THEN up_h ELSE 0)
        ELSE IF orientation = "north" THEN (IF k \in {1, 2} THEN up_h ELSE 0)
        ELSE IF orientation = "east" THEN (IF k \in {2, 3} THEN up_h ELSE 0)
        ELSE IF orientation = "west" THEN (IF k \in {1, 4} THEN up_h ELSE 0)
        ELSE 0

\* What the simplified tilt adds to z of the k-th point of a panel (k = 1..4
\* for panel_pts[0..3]).
PanelLift(tilt_angle, orientation, k) ==
    LET up_h == Scaled(panel_height, Sin(tilt_angle))
        up_w == Scaled(panel_width, Sin(tilt_angle))
    IN  IF orientation = "south" THEN (IF k \in {3, 4} THEN up_h ELSE 0)
        ELSE IF orientation = "north" THEN (IF k \in {1, 2} THEN up_h ELSE 0)
        ELSE IF orientation = "east" THEN (IF k \in {2, 3} THEN up_w ELSE 0)
        ELSE IF orientation = "west" THEN (IF k \in {1, 4} THEN up_w ELSE 0)
        ELSE 0

\* Panel with an unknown orientation tilted like 'south', the orientation
\* its normal defaults to.
Panel_DefaultSouth(fp, h, tilt_angle, orientation, i, j) ==
    LET b == BBox(fp)
        ox == PanelOriginX(b.min_x, i)
        oy == PanelOriginY(b.min_y, j)
        z0 == h + panel_thickness
        lift(k) ==
            PanelLift(tilt_angle,
                      IF orientation \in {"south", "north", "east", "west"}
                      THEN orientation ELSE "south", k)
    IN  Face3D(<< Point3D(ox, oy, z0 + lift(1)),
                  Point3D(ox + panel_width, oy, z0 + lift(2)),
                  Point3D(ox + panel_width, oy + panel_height, z0 + lift(3)),
                  Point3D(ox, oy + panel_height, z0 + lift(4)) >>)

\* The panel in column i, row j, with the simplified tilt applied.
Panel(fp, h, tilt_angle, orientation, i, j) ==
    LET b == BBox(fp)
        ox == PanelOriginX(b.min_x, i)
        oy == PanelOriginY(b.min_y, j)
        z0 == h + panel_thickness
        lift(k) == PanelLift(tilt_angle, orientation, k)
    IN  Face3D(<< Point3D(ox, oy, z0 + lift(1)),
                  Point3D(ox + panel_width, oy, z0 + lift(2)),
                  Point3D(ox + panel_width, oy + panel_height, z0 + lift(3)),
                  Point3D(ox, oy + panel_height, z0 + lift(4)) >>)

\* create_solar_roof returns the pair (roof_faces, panel_faces).
create_solar_roof(fp, h, tilt_angle, orientation, coverage) ==
    LET rows == max_panels_y(fp)
        placed == PanelsPlaced(fp, coverage)
    IN  [roof_faces |-> <<create_flat_roof(fp, h, 30, 0)>>,
         panel_faces |->
            [k \in 1..placed |->
                Panel(fp, h, tilt_angle, orientation,
                      (k - 1) \div rows, (k - 1) % rows)]]

----------------------------------------------------------------------------
(* create_roof: dispatch on the archetype tag *)

\* The tags create_roof knows.
roof_types == {"flat", "gable", "hip", "pyramid", "shed", "mansard",
               "butterfly", "sawtooth", "curved", "solar"}

\* True when the generator chosen by the tag raises instead of returning.
CreateRoofRaises(t, p) ==
    t = "sawtooth" /\ SawtoothRaises(Get(p, "section_width", 400))

\* The faces of the roof create_roof returns (first component).
CreateRoofFaces(fp, h, t, p) ==
    IF t = "flat"
    THEN <<create_flat_roof(fp, h, Get(p, "roof_thickness", 30),
                            Get(p, "slope", 0))>>
    ELSE IF t = "gable"
    THEN create_gable_roof(fp, h, Get(p, "roof_height", 300),
                           Get(p, "axis", "y"), Get(p, "slope_angle", 30))
    ELSE IF t = "hip"
    THEN create_hip_roof(fp, h, Get(p, "roof_height", 250),
                         Get(p, "slope_angle", 25))
    ELSE IF t = "pyramid"
    THEN create_pyramid_roof(fp, h, Get(p, "roof_height", 400))
    ELSE IF t = "shed"
    THEN <<create_shed_roof(fp, h, Get(p, "roof_height", 200),
                            Get(p, "slope_direction", "north"),
                            IF "slope_angle" \in DOMAIN p
                            THEN <<p.slope_angle>> ELSE <<>>)>>
    ELSE IF t = "mansard"
    THEN create_mansard_roof(fp, h, Get(p, "roof_height", 300),
                             Get(p, "lower_slope", 70),
                             Get(p, "upper_slope", 30))
    ELSE IF t = "butterfly"
    THEN create_butterfly_roof(fp, h, Get(p, "roof_height", 200),
                               Get(p, "valley_depth", 100))
    ELSE IF t = "sawtooth"
    THEN create_sawtooth_roof(fp, h, Get(p, "section_width", 400),
                              Get(p, "roof_height", 200),
                              Get(p, "slope_angle", 30))
    ELSE IF t = "curved"
    THEN create_curved_roof(fp, h, Get(p, "roof_height", 300),
                            Get(p, "num_segments", 8))
    ELSE IF t = "solar"
    THEN create_solar_roof(fp, h, Get(p, "tilt_angle", 15),
                           Get(p, "orientation", "south"),
                           Get(p, "coverage", 800)).roof_faces
    ELSE <<create_flat_roof(fp, h, 30, 0)>>

\* The panel faces create_roof returns (second component).
CreateRoofPanels(fp, h, t, p) ==
    IF t = "solar"
    THEN create_solar_roof(fp, h, Get(p, "tilt_angle", 15),
                           Get(p, "orientation", "south"),
                           Get(p, "coverage", 800)).panel_faces
    ELSE <<>>

\* The exception Face3D(roof_pts) ends create_flat_roof with, "" if none: the
\* centre of an empty footprint divides by zero, and Face3D refuses fewer
\* than 3 vertices.
FlatRoofException(fp) ==
    IF Len(fp) = 0 THEN "ZeroDivisionError"
    ELSE IF Len(fp) < 3 THEN "AssertionError"
    ELSE ""

\* The exception create_roof ends with, "" when it returns.  The generators
\* that work on the bounding box take min() and max() of the footprint, which
\* need one point; only the flat roof builds a face from the points themselves.
CreateRoofException(fp, t, p) ==
    IF CreateRoofRaises(t, p) THEN "ZeroDivisionError"
    ELSE IF t \in {"gable", "hip", "pyramid", "shed", "mansard", "butterfly",
                   "sawtooth", "curved"}
    THEN (IF Len(fp) = 0 THEN "ValueError" ELSE "")
    ELSE IF t = "solar" /\ Len(fp) = 0 THEN "ValueError"
    ELSE FlatRoofException(fp)

----------------------------------------------------------------------------
(* create_building *)

\* footprint_pts of create_building.
footprint_pts(origin, width, depth) ==
    << Point3D(origin.x, origin.y, origin.z),
       Point3D(origin.x + width, origin.y, origin.z),
       Point3D(origin.x + width, origin.y + depth, origin.z),
       Point3D(origin.x, origin.y + depth, origin.z) >>

\* The two floats that are not numbers of centimetres: float('inf') and
\* float('nan'), each standing outside the range of the lengths used.
float_inf == 2000000000

float_nan == 2000000001

IsFinite(a) == a # float_inf /\ a # float_nan

\* int(a) of a float: "" when it converts, else the exception it raises.
IntException(a) ==
    IF a = float_nan THEN "ValueError"
    ELSE IF a = float_inf THEN "OverflowError"
    ELSE ""

\* The exception create_building ends with, "" when it returns: the floor
\* height divides by num_floors, the room identifier of the first floor
\* takes int(origin.x) and int(origin.y), and whatever create_roof raises
\* passes through.
CreateBuildingException(origin, width, depth, h, num_floors, t, p) ==
    IF num_floors = 0 THEN "ZeroDivisionError"
    ELSE IF num_floors > 0 /\ IntException(origin.x) # ""
    THEN IntException(origin.x)
    ELSE IF num_floors > 0 /\ IntException(origin.y) # ""
    THEN IntException(origin.y)
    ELSE CreateRoofException(footprint_pts(origin, width, depth), t, p)

\* The rooms of create_building, one box per floor; the top one carries the
\* roof type as user data.
BuildingRooms(origin, width, depth, h, num_floors, t) ==
    LET floor_height == IntDiv(h, num_floors)
    IN  [floor \in 1..num_floors |->
            [origin |-> Point3D(origin.x, origin.y,
                                origin.z + (floor - 1) * floor_height),
             width |-> width, depth |-> depth, height |-> floor_height,
             roof_type |-> IF floor = num_floors THEN t ELSE ""]]

----------------------------------------------------------------------------
(* Face3D.normal, Face3D.area and Vector3D.angle of ladybug_geometry, as the
   scorers use them.  A vector is a record [x, y, z]; a unit vector has its
   components in thousandths. *)

Vector3D(vx, vy, vz) == [x |-> vx, y |-> vy, z |-> vz]

\* The vertex after the k-th one around the loop.
NextVertex(f, k) == f[(k % Len(f)) + 1]

\* Newell's vector of the vertex loop: twice the area, along the normal,
\* right-handed with respect to the vertex order.  Units of 100 cm2.
Newell(f) ==
    LET tx(a, b) == (a.y - b.y) * (a.z + b.z)
        ty(a, b) == (a.z - b.z) * (a.x + b.x)
        tz(a, b) == (a.x - b.x) * (a.y + b.y)
        n == Len(f)
    IN  Vector3D(
          IntDiv(SeqSum([k \in 1..n |-> tx(f[k], NextVertex(f, k))]), 100),
          IntDiv(SeqSum([k \in 1..n |-> ty(f[k], NextVertex(f, k))]), 100),
          IntDiv(SeqSum([k \in 1..n |-> tz(f[k], NextVertex(f, k))]), 100))

Magnitude(v) == Sqrt(v.x * v.x + v.y * v.y + v.z * v.z)

\* Vector3D.normalize(): a zero vector is returned unchanged.
Normalize(v) ==
    LET d == Magnitude(v)
    IN  IF d = 0 THEN v
        ELSE Vector3D(IntDiv(v.x * 1000, d), IntDiv(v.y * 1000, d),
                      IntDiv(v.z * 1000, d))

\* Face3D.normal: the unit normal of the face's plane.
FaceNormal(f) == Normalize(Newell(f))

\* Face3D.area in whole square metres.
FaceArea(f) == IntDiv(Magnitude(Newell(f)), 200)

\* Vector3D.angle(other) in whole degrees; both vectors non-zero.  A quotient
\* outside [-1, 1] (rounding) is taken as -1 or 1, as the library does.
Angle(u, v) ==
    LET dot == u.x * v.x + u.y * v.y + u.z * v.z
        c == IntDiv(dot * 1000, Magnitude(u) * Magnitude(v))
    IN  Acos(Max2(0 - 1000, Min2(1000, c)))

\* Vector3D.reverse()
Reverse(v) == Vector3D(0 - v.x, 0 - v.y, 0 - v.z)

----------------------------------------------------------------------------
(* testovani_08_05.py: roof properties, solar access, solar potential *)

up_vector == Vector3D(0, 0, 1)

north_vector == Vector3D(0, 1, 0)

\* 'tilt' as calculate_roof_properties records it.
Tilt(normal) == 90 - Angle(normal, up_vector)

\* 'azimuth' as calculate_roof_properties records it.
Azimuth(normal) ==
    LET normal_horiz == Vector3D(normal.x, normal.y, 0)
    IN  IF Magnitude(normal_horiz) < 1 THEN 0
        ELSE LET azimuth == Angle(Normalize(normal_horiz), north_vector)
             IN  IF normal.x < 0 THEN 360 - azimuth ELSE azimuth

\* One dictionary of calculate_roof_properties; id is the position of the
\* roof in the input list.
RoofProperties(faces, i) ==
    LET normal == FaceNormal(faces[i])
    IN  [id |-> i, normal |-> normal, area |-> FaceArea(faces[i]),
         tilt |-> Tilt(normal), azimuth |-> Azimuth(normal)]

calculate_roof_properties(faces) ==
    [i \in 1..Len(faces) |-> RoofProperties(faces, i)]

\* The cosine Vector3D.angle takes the arc cosine of, in thousandths.
CosAngle(u, v) ==
    LET dot == u.x * v.x + u.y * v.y + u.z * v.z
    IN  Max2(0 - 1000, Min2(1000, IntDiv(dot * 1000,
                                         Magnitude(u) * Magnitude(v))))

\* The test 'angle < np.pi/2' of analyze_solar_access: the arc cosine is
\* below a right angle exactly when the cosine is positive (Angle rounds a
\* whole degree up, which would turn 89.05 degrees into 90).
AngleBelowRight(u, v) == CosAngle(u, v) > 0

\* A sun sample is [altitude |-> degrees, sun_vector |-> unit vector from the
\* sun to the ground].  True when the sample lights a face with this normal.
Sunlit(normal, sun) ==
    /\ sun.altitude > 0
    /\ AngleBelowRight(normal, Reverse(sun.sun_vector))

\* np.cos(angle) * np.sin(sun.altitude_in_radians), in thousandths.
RadiationFactor(normal, sun) ==
    Scaled(Cos(Angle(normal, Reverse(sun.sun_vector))), Sin(sun.altitude))

RECURSIVE SolarAccessHours(_, _)
SolarAccessHours(normal, hoys) ==
    IF hoys = << >> THEN 0
    ELSE (IF Sunlit(normal, Head(hoys)) THEN 1 ELSE 0)
         + SolarAccessHours(normal, Tail(hoys))

RECURSIVE WeightedAccessHours(_, _)
WeightedAccessHours(normal, hoys) ==
    IF hoys = << >> THEN 0
    ELSE (IF Sunlit(normal, Head(hoys))
          THEN RadiationFactor(normal, Head(hoys)) ELSE 0)
         + WeightedAccessHours(normal, Tail(hoys))

\* analyze_solar_access divides by len(hoys) for every roof.
AnalyzeSolarAccessRaises(props, hoys) == props # << >> /\ hoys = << >>

\* The dictionaries after analyze_solar_access (hoys non-empty).
analyze_solar_access(props, hoys) ==
    [i \in 1..Len(props) |->
        [id |-> props[i].id, normal |-> props[i].normal,
         area |-> props[i].area, tilt |-> props[i].tilt,
         azimuth |-> props[i].azimuth,
         sun_hours |-> SolarAccessHours(props[i].normal, hoys),
         weighted_hours |-> WeightedAccessHours(props[i].normal, hoys)]]

\* The dictionaries after the except branch of main.
SimplifiedAccess(props) ==
    [i \in 1..Len(props) |->
        [id |-> props[i].id, normal |-> props[i].normal,
         area |-> props[i].area, tilt |-> props[i].tilt,
         azimuth |-> props[i].azimuth,
         sun_hours |-> 0, weighted_hours |-> 0]]

WeightedHours(props) == [i \in 1..Len(props) |-> props[i].weighted_hours]

\* range_weighted taken from zero instead of from the minimum.
RangeWeighted_FromZero(props) == Max2(SeqMax(WeightedHours(props)), 1)

\* range_weighted: max(max - min, 0.001).
RangeWeighted(props) ==
    Max2(SeqMax(WeightedHours(props)) - SeqMin(WeightedHours(props)), 1)

TiltFactor(tilt) == 1000 - IntDiv(Min2(Abs(tilt - 35), 90) * 1000, 90)

\* AzimuthFactor with the deviation measured from north instead of south.
AzimuthFactor_FromNorth(azimuth) ==
    1000 - IntDiv(Min2(Abs(azimuth), 180) * 1000, 180)

AzimuthFactor(azimuth) ==
    1000 - IntDiv(Min2(Abs(azimuth - 180), 180) * 1000, 180)

\* WeightedFactor without the minimum subtracted before the division.
WeightedFactor_NoMin(props, i) ==
    IntDiv(props[i].weighted_hours * 1000, RangeWeighted(props))

WeightedFactor(props, i) ==
    IntDiv((props[i].weighted_hours - SeqMin(WeightedHours(props))) * 1000,
           RangeWeighted(props))

Suitability(props, i) ==
    IntDiv(250 * TiltFactor(props[i].tilt)
           + 250 * AzimuthFactor(props[i].azimuth)
           + 500 * WeightedFactor(props, i), 1000)

\* list.sort(key = suitability, reverse = True): stable, descending.
RECURSIVE InsertBySuitability(_, _)
InsertBySuitability(sorted, r) ==
    IF sorted = << >> THEN <<r>>
    ELSE IF Head(sorted).suitability >= r.suitability
         THEN <<Head(sorted)>> \o InsertBySuitability(Tail(sorted), r)
         ELSE <<r>> \o sorted

RECURSIVE SortBySuitability(_)
SortBySuitability(recs) ==
    IF recs = << >> THEN << >>
    ELSE InsertBySuitability(SortBySuitability(SubSeq(recs, 1, Len(recs) - 1)),
                             recs[Len(recs)])

calculate_solar_potential(props) ==
    IF props = << >> THEN props
    ELSE SortBySuitability(
           [i \in 1..Len(props) |->
              LET suit == Suitability(props, i)
                  annual_insolation == Scaled(1050, suit)
              IN  [id |-> props[i].id, normal |-> props[i].normal,
                   area |-> props[i].area, tilt |-> props[i].tilt,
                   azimuth |-> props[i].azimuth,
                   sun_hours |-> props[i].sun_hours,
                   weighted_hours |-> props[i].weighted_hours,
                   suitability |-> suit,
                   annual_insolation |-> annual_insolation,
                   energy_production |->
                       Scaled(annual_insolation * props[i].area, 200)]])

----------------------------------------------------------------------------
(* Ok.py: sensor grids, solar access, solar potential *)

\* np.arange(lo + grid_size / 2, hi, grid_size) for grid_size = 1.0.
GridCoords(lo, hi) ==
    {lo + 50 + 100 * k : k \in 0..IntDiv(Max2(hi - lo, 0), 100)}
    \cap (lo..(hi - 1))

\* Crossing test of the xy outline of the face against the ray from (px, py)
\* towards +x: true when edge k crosses it.
EdgeCrosses(f, k, px, py) ==
    LET a == f[k]
        b == NextVertex(f, k)
    IN  /\ (a.y > py) # (b.y > py)
        /\ IF b.y > a.y
           THEN (px - a.x) * (b.y - a.y) < (py - a.y) * (b.x - a.x)
           ELSE (px - a.x) * (b.y - a.y) > (py - a.y) * (b.x - a.x)

\* Face3D.is_point_on_face((px, py, vertices[0].z), tolerance = 0.1): within
\* the tolerance of the face's plane and inside its outline.
IsPointOnFace(f, px, py) ==
    LET n == FaceNormal(f)
    IN  /\ Abs(n.x * (px - f[1].x) + n.y * (py - f[1].y)) <= 10 * 1000
        /\ Cardinality({k \in 1..Len(f) : EdgeCrosses(f, k, px, py)}) % 2 = 1

\* True when create_analysis_grid_from_roofs finds a test point on the roof.
HasTestPoints(f) ==
    LET xs == [k \in 1..Len(f) |-> f[k].x]
        ys == [k \in 1..Len(f) |-> f[k].y]
    IN  \E px \in GridCoords(SeqMin(xs), SeqMax(xs)) :
          \E py \in GridCoords(SeqMin(ys), SeqMax(ys)) :
             IsPointOnFace(f, px, py)

RECURSIVE create_analysis_grid_from_roofs(_)
\* The grids in roof order, each reduced to the direction its sensors share
\* (the roof's normal); a roof without test points gets no grid.
create_analysis_grid_from_roofs(faces) ==
    IF faces = << >> THEN << >>
    ELSE (IF HasTestPoints(Head(faces)) THEN <<FaceNormal(Head(faces))>>
          ELSE << >>)
         \o create_analysis_grid_from_roofs(Tail(faces))

\* calculate_sun_vectors_and_hoys: the sun vectors of the hours with the sun
\* above the horizon.
RECURSIVE SunVectors(_)
SunVectors(hoys) ==
    IF hoys = << >> THEN << >>
    ELSE (IF Head(hoys).altitude > 0 THEN <<Head(hoys).sun_vector>>
          ELSE << >>)
         \o SunVectors(Tail(hoys))

\* Vector3D.angle in thousandths of a radian.
AngleRadians(u, v) == IntDiv(Angle(u, v) * 3142, 180)

\* The test 'angle < 90' of run_solar_access_analysis, on the radians that
\* Vector3D.angle returns.
SeesSun(direction, sun_vector) ==
    AngleRadians(direction, Reverse(sun_vector)) < 90 * 1000

RECURSIVE VisibleSunHours(_, _)
VisibleSunHours(direction, sun_vectors) ==
    IF sun_vectors = << >> THEN 0
    ELSE (IF SeesSun(direction, Head(sun_vectors)) THEN 1 ELSE 0)
         + VisibleSunHours(direction, Tail(sun_vectors))

\* The percentage run_solar_access_analysis records for every sensor of a
\* grid with this direction.
SunPercentage(direction, sun_vectors) ==
    IF sun_vectors # << >>
    THEN IntDiv(VisibleSunHours(direction, sun_vectors) * 100,
                Len(sun_vectors))
    ELSE 0

run_solar_access_analysis(grids, sun_vectors) ==
    [g \in 1..Len(grids) |-> SunPercentage(grids[g], sun_vectors)]

calculate_azimuth(normal_vector) ==
    LET projected_normal == Vector3D(normal_vector.x, normal_vector.y, 0)
    IN  IF projected_normal.x = 0 /\ projected_normal.y = 0 THEN 0
        ELSE LET angle_deg == Angle(projected_normal, north_vector)
             IN  IF normal_vector.x < 0 THEN 360 - angle_deg ELSE angle_deg

\* slope_angle of analyze_solar_potential.
SlopeAngle(normal_vector) == 90 - Angle(normal_vector, up_vector)

\* suitability of analyze_solar_potential from slope, azimuth and the mean
\* percentage of the roof's result.
OkSuitability(slope_angle, azimuth, percentage) ==
    LET avg_sunlight_hours == IntDiv(percentage * 24 * 365, 100)
        slope_factor == 1000 - IntDiv(Min2(Abs(slope_angle - 35), 90) * 1000, 90)
        azimuth_factor ==
            1000 - IntDiv(Min2(Abs(azimuth - 180), 180) * 1000, 180)
        sunlight_factor == Min2(IntDiv(avg_sunlight_hours * 1000, 4380), 1000)
    IN  IntDiv(300 * slope_factor + 300 * azimuth_factor
               + 400 * sunlight_factor, 1000)

\* analyze_solar_potential: zip pairs the i-th roof with the i-th result and
\* stops at the shorter list; the records are sorted by suitability.
analyze_solar_potential(results, faces) ==
    SortBySuitability(
      [i \in 1..Min2(Len(faces), Len(results)) |->
         LET normal_vector == FaceNormal(faces[i])
             slope_angle == SlopeAngle(normal_vector)
             azimuth == calculate_azimuth(normal_vector)
             suit == OkSuitability(slope_angle, azimuth, results[i])
             annual_insolation == Scaled(1050, suit)
         IN  [id |-> i, area |-> FaceArea(faces[i]),
              slope |-> slope_angle, azimuth |-> azimuth,
              avg_sunlight_hours |-> IntDiv(results[i] * 24 * 365, 100),
              suitability |-> suit,
              annual_insolation |-> annual_insolation,
              energy_production |->
                  Scaled(annual_insolation * FaceArea(faces[i]), 200),
              normal |-> normal_vector]])

----------------------------------------------------------------------------
(* Inputs *)

\* Largest num_segments tried for the curved roof.
MaxSegments == 3

\* A rectangular footprint as create_building lays it out.
Rect(ox, oy, width, depth) ==
    << Point3D(ox, oy, 0), Point3D(ox + width, oy, 0),
       Point3D(ox + width, oy + depth, 0), Point3D(ox, oy + depth, 0) >>

RectFootprints ==
    { Rect(0, 0, 1000, 1000), Rect(0, 0, 1000, 600),
      Rect(200, 100, 340, 220) }

OtherFootprints ==
    { << Point3D(0, 0, 0), Point3D(800, 0, 0), Point3D(400, 600, 0) >>,
      << Point3D(0, 0, 0), Point3D(600, 0, 0), Point3D(600, 300, 0),
         Point3D(300, 600, 0), Point3D(0, 600, 0) >> }

\* A footprint with fewer than 3 points: the two ends of a diagonal.
ShortFootprints ==
    { << Point3D(0, 0, 0), Point3D(1000, 600, 0) >> }

Footprints == RectFootprints \cup OtherFootprints \cup ShortFootprints

Heights == {300, 1000}

Directions == {"north", "south", "east", "west"}

\* Parameter dictionaries tried for each tag; <<>> is the empty dictionary.
ParamChoices(t) ==
    {<< >>} \cup
    (IF t = "flat"
     THEN [roof_thickness : {30, 50}, slope : {0, 5}]
     ELSE IF t = "gable"
     THEN [roof_height : {0, 100, 400}, axis : {"x", "y"},
           slope_angle : {0, 30, 45}]
     ELSE IF t = "hip"
     THEN [roof_height : {100, 400}, slope_angle : {0, 25, 45, 55}]
     ELSE IF t = "pyramid"
     THEN [roof_height : {100, 400}]
          \cup [roof_height : {100, 400}, slope_angle : {25, 45}]
     ELSE IF t = "shed"
     THEN [roof_height : {200}, slope_direction : Directions]
          \cup [roof_height : {200, 300}, slope_direction : Directions,
                slope_angle : {10, 25}]
     ELSE IF t = "mansard"
     THEN [roof_height : {300, 400}, lower_slope : {70},
           upper_slope : {20, 30}]
     ELSE IF t = "butterfly"
     THEN [roof_height : {250}, valley_depth : {100, 120}]
     ELSE IF t = "sawtooth"
     THEN [section_width : {0 - 200, 0, 150, 400}, roof_height : {250},
           slope_angle : {25}]
     ELSE IF t = "curved"
     THEN [roof_height : {300}, num_segments : 0..MaxSegments]
     ELSE IF t = "solar"
     THEN [tilt_angle : {15, 30},
           orientation : Directions \cup {"southeast"},
           coverage : {0, 500, 1000, 1500}]
     ELSE {})

\* Dimensions handed to create_building: a proper one and a negative one.
BuildingWidths == {0 - 400, 1000}

BuildingDepths == {0 - 300, 600}

BuildingHeights == {0 - 300, 900}

FloorCounts == {0, 1, 3}

\* Largest number of hours in an analysis period.
MaxHoys == 2

\* Sun positions: east 30 degrees up, south 60 up, west 10 up, north below
\* the horizon.
SunPositions ==
    << [altitude |-> 30, sun_vector |-> Vector3D(0 - 866, 0, 0 - 500)],
       [altitude |-> 60, sun_vector |-> Vector3D(0, 500, 0 - 866)],
       [altitude |-> 10, sun_vector |-> Vector3D(985, 0, 0 - 174)],
       [altitude |-> 0 - 20, sun_vector |-> Vector3D(0, 0 - 940, 342)] >>

\* The hours of an analysis period as sun positions, in time order.
HoysChoices ==
    { [k \in 1..Len(ix) |-> SunPositions[ix[k]]] :
        ix \in { jx \in UNION { [1..n -> 1..Len(SunPositions)] : n \in 0..MaxHoys } :
                    \A a, b \in DOMAIN jx : a < b => jx[a] < jx[b] } }

\* Tags tried: the ten known ones and one create_roof does not know.
TagChoices == roof_types \cup {"dome"}

----------------------------------------------------------------------------
(* State machine *)

Init ==
    /\ footprint \in Footprints
    /\ height \in Heights
    /\ roof_type = ""
    /\ roof_params = << >>
    /\ roof_faces = << >>
    /\ solar_panels = << >>
    /\ status = "ready"
    /\ raised = ""
    /\ roof_props = << >>
    /\ caught = ""
    /\ analysis_grids = << >>
    /\ analysis_results = << >>
    /\ solar_potential = << >>
    /\ analysis_period = << >>
    /\ printed = << >>
    /\ rooms = << >>
    /\ given_normal = up_vector
    /\ azimuths = << >>
    /\ CityIdle

\* create_roof(footprint, height, roof_type, roof_params)
CreateRoof(t, p) ==
    /\ status = "ready"
    /\ roof_type' = t
    /\ roof_params' = p
    /\ IF CreateRoofException(footprint, t, p) # ""
       THEN /\ roof_faces' = << >>
            /\ solar_panels' = << >>
            /\ status' = "failed"
            /\ raised' = CreateRoofException(footprint, t, p)
       ELSE /\ roof_faces' = CreateRoofFaces(footprint, height, t, p)
            /\ solar_panels' = CreateRoofPanels(footprint, height, t, p)
            /\ status' = "built"
            /\ raised' = ""
    /\ UNCHANGED <<footprint, height, testovani_vars, ok_vars,
                   analysis_period, printed, rooms, azimuth_vars,
                   city_vars>>

\* create_building(origin, width, depth, height, num_floors, roof_type,
\* roof_params): the footprint from the dimensions, the rooms, then the roof.
CreateBuilding(origin, width, depth, h, num_floors, t, p) ==
    /\ status = "ready"
    /\ footprint' = footprint_pts(origin, width, depth)
    /\ height' = h
    /\ roof_type' = t
    /\ roof_params' = p
    /\ IF CreateBuildingException(origin, width, depth, h, num_floors, t, p)
            # ""
       THEN /\ rooms' = << >>
            /\ roof_faces' = << >>
            /\ solar_panels' = << >>
            /\ status' = "failed"
            /\ raised' = CreateBuildingException(origin, width, depth, h,
                                                 num_floors, t, p)
       ELSE /\ rooms' = BuildingRooms(origin, width, depth, h, num_floors, t)
            /\ roof_faces'
                 = CreateRoofFaces(footprint_pts(origin, width, depth), h, t, p)
            /\ solar_panels'
                 = CreateRoofPanels(footprint_pts(origin, width, depth), h, t, p)
            /\ status' = "building"
            /\ raised' = ""
    /\ UNCHANGED <<testovani_vars, ok_vars, analysis_period, printed,
                   azimuth_vars,
                   city_vars>>

\* testovani_08_05 main, step 3: calculate_roof_properties over the roofs.
CalculateRoofProperties ==
    /\ status = "built"
    /\ IF \E i \in 1..Len(roof_faces) : Magnitude(Newell(roof_faces[i])) = 0
       THEN /\ status' = "failed"
            /\ raised' = "ZeroDivisionError"
            /\ UNCHANGED roof_props
       ELSE /\ roof_props' = calculate_roof_properties(roof_faces)
            /\ status' = "props"
            /\ UNCHANGED raised
    /\ UNCHANGED <<footprint, height, roof_type, roof_params, roof_faces,
                   solar_panels, caught, ok_vars, analysis_period, printed,
                   rooms, azimuth_vars,
                   city_vars>>

\* testovani_08_05 main, step 5: analyze_solar_access inside try/except; the
\* except branch prints the error and fills in zeros.
AnalyzeSolarAccess(hoys) ==
    /\ status = "props"
    /\ analysis_period' = hoys
    /\ IF AnalyzeSolarAccessRaises(roof_props, hoys)
       THEN /\ caught' = "ZeroDivisionError"
            /\ printed' = printed \o <<"Chyba pri analyze pristupu slunce",
                                       "Pouzivam zjednodusenou analyzu">>
            /\ roof_props' = SimplifiedAccess(roof_props)
       ELSE /\ roof_props' = analyze_solar_access(roof_props, hoys)
            /\ UNCHANGED <<caught, printed>>
    /\ status' = "access"
    /\ UNCHANGED <<footprint, height, roof_type, roof_params, roof_faces,
                   solar_panels, raised, ok_vars, rooms, azimuth_vars,
                   city_vars>>

\* testovani_08_05 main, step 6: calculate_solar_potential.
CalculateSolarPotential ==
    /\ status = "access"
    /\ roof_props' = calculate_solar_potential(roof_props)
    /\ status' = "scored"
    /\ UNCHANGED <<footprint, height, roof_type, roof_params, roof_faces,
                   solar_panels, raised, caught, ok_vars, analysis_period,
                   printed, rooms, azimuth_vars,
                   city_vars>>

\* Ok main: create_analysis_grid_from_roofs over the roofs; a roof with a
\* zero normal stops the run when its direction is measured.
CreateAnalysisGrid ==
    /\ status = "built"
    /\ IF \E i \in 1..Len(roof_faces) : Magnitude(Newell(roof_faces[i])) = 0
       THEN /\ status' = "failed"
            /\ raised' = "ZeroDivisionError"
            /\ UNCHANGED analysis_grids
       ELSE /\ analysis_grids' = create_analysis_grid_from_roofs(roof_faces)
            /\ status' = "grids"
            /\ UNCHANGED raised
    /\ UNCHANGED <<footprint, height, roof_type, roof_params, roof_faces,
                   solar_panels, testovani_vars, analysis_results,
                   solar_potential, analysis_period, printed, rooms,
                   azimuth_vars,
                   city_vars>>

\* Ok main: run_solar_access_analysis over the hours of the analysis period.
RunSolarAccessAnalysis(hoys) ==
    /\ status = "grids"
    /\ analysis_period' = hoys
    /\ analysis_results'
         = run_solar_access_analysis(analysis_grids, SunVectors(hoys))
    /\ status' = "analysed"
    /\ UNCHANGED <<footprint, height, roof_type, roof_params, roof_faces,
                   solar_panels, raised, testovani_vars, analysis_grids,
                   solar_potential, printed, rooms, azimuth_vars,
                   city_vars>>

\* Ok main: analyze_solar_potential.
AnalyzeSolarPotential ==
    /\ status = "analysed"
    /\ solar_potential' = analyze_solar_potential(analysis_results, roof_faces)
    /\ status' = "ranked"
    /\ UNCHANGED <<footprint, height, roof_type, roof_params, roof_faces,
                   solar_panels, raised, testovani_vars, analysis_grids,
                   analysis_results, analysis_period, printed, rooms,
                   azimuth_vars,
                   city_vars>>

Next ==
    \/ \E t \in TagChoices : \E p \in ParamChoices(t) : CreateRoof(t, p)
    \/ \E width \in BuildingWidths : \E depth \in BuildingDepths :
         \E h \in BuildingHeights : \E num_floors \in FloorCounts :
           \E t \in TagChoices :
             CreateBuilding(Point3D(0, 0, 0), width, depth, h, num_floors,
                            t, << >>)
    \/ CalculateRoofProperties
    \/ \E hoys \in HoysChoices : AnalyzeSolarAccess(hoys)
    \/ CalculateSolarPotential
    \/ CreateAnalysisGrid
    \/ \E hoys \in HoysChoices : RunSolarAccessAnalysis(hoys)
    \/ AnalyzeSolarPotential

Spec == Init /\ [][Next]_vars

----------------------------------------------------------------------------
(* The azimuth computations of the two scorers on a given face normal.

   A normal is a unit vector in thousandths.  The fixed-point cosine resolves
   one thousandth where the program's floating point resolves about 1e-16: a
   component of 1 or -1 next to a component of 1000 stands for one too small
   for the cosine to resolve, such as -1e-9 next to 1.0, for which
   dot / (|a| * |b|) is exactly 1.0 and Vector3D.angle returns 0.0. *)

Components == {0 - 1000, 0 - 707, 0 - 1, 0, 1, 707, 1000}

\* The unit vectors with these components whose horizontal part is either
\* zero or large enough for both scorers to measure its direction.
NormalChoices ==
    { v \in [x : Components, y : Components, z : Components] :
        /\ v.x * v.x + v.y * v.y + v.z * v.z \in 999000..1001000
        /\ \/ v.x = 0 /\ v.y = 0
           \/ v.x * v.x + v.y * v.y >= 490000 }

AzimuthInit ==
    /\ given_normal \in NormalChoices
    /\ azimuths = << >>
    /\ footprint = Rect(0, 0, 1000, 1000)
    /\ height = 300
    /\ roof_type = ""
    /\ roof_params = << >>
    /\ roof_faces = << >>
    /\ solar_panels = << >>
    /\ status = "ready"
    /\ raised = ""
    /\ roof_props = << >>
    /\ caught = ""
    /\ analysis_grids = << >>
    /\ analysis_results = << >>
    /\ solar_potential = << >>
    /\ analysis_period = << >>
    /\ printed = << >>
    /\ rooms = << >>
    /\ CityIdle

\* The azimuth calculate_roof_properties records and the one
\* calculate_azimuth returns for the given normal.
ComputeAzimuths ==
    /\ azimuths = << >>
    /\ azimuths' = [testovani |-> Azimuth(given_normal),
                    ok |-> calculate_azimuth(given_normal)]
    /\ UNCHANGED <<footprint, height, roof_type, roof_params, roof_faces,
                   solar_panels, status, raised, testovani_vars, ok_vars,
                   analysis_period, printed, rooms, given_normal,
                   city_vars>>

AzimuthNext == ComputeAzimuths

AzimuthSpec == AzimuthInit /\ [][AzimuthNext]_vars

----------------------------------------------------------------------------
(* create_city: the buildings of a city, one call of create_building per
   turn of its loop.  Lengths are floats in the program; city_size may be
   float('inf'). *)

\* The largest number of buildings asked for.
MaxBuildings == 4

\* a / n for a float a and a positive whole n.
FloatDiv(a, n) == IF IsFinite(a) THEN IntDiv(a, n) ELSE a

\* k * a for a whole k >= 0 and a float a >= 0: 0 * inf is nan.
FloatMul(k, a) ==
    IF a = float_nan THEN float_nan
    ELSE IF a = float_inf THEN (IF k = 0 THEN float_nan ELSE float_inf)
    ELSE k * a

\* a + b for floats that are not -inf.
FloatAdd(a, b) ==
    IF a = float_nan \/ b = float_nan THEN float_nan
    ELSE IF a = float_inf \/ b = float_inf THEN float_inf
    ELSE a + b

\* a - w for a float a and a length w.
FloatSub(a, w) == IF IsFinite(a) THEN a - w ELSE a

\* The values random.uniform(0, b) = 0 + (b - 0) * random.random() is tried
\* with: its two ends; for b = inf the product is inf, or nan when
\* random.random() returns 0.0.
Uniform(b) ==
    IF b = float_nan THEN {float_nan}
    ELSE IF b = float_inf THEN {float_inf, float_nan}
    ELSE {0, b}

\* building_types of create_city.
building_types ==
    << [width |-> 1000, depth |-> 1000, height |-> 1000, num_floors |-> 3],
       [width |-> 1500, depth |-> 1500, height |-> 1500, num_floors |-> 4],
       [width |-> 2000, depth |-> 1500, height |-> 2000, num_floors |-> 5],
       [width |-> 3000, depth |-> 2000, height |-> 3000, num_floors |-> 8],
       [width |-> 4000, depth |-> 2500, height |-> 4500, num_floors |-> 15],
       [width |-> 5000, depth |-> 5000, height |-> 2500, num_floors |-> 6],
       [width |-> 2500, depth |-> 6000, height |-> 1200, num_floors |-> 3],
       [width |-> 3000, depth |-> 3000, height |-> 1500, num_floors |-> 4],
       [width |-> 1800, depth |-> 1200, height |-> 1800, num_floors |-> 5],
       [width |-> 3500, depth |-> 2000, height |-> 2200, num_floors |-> 6] >>

\* The building types random.choice is tried with: the small house and the
\* long building.
BuildingTypeChoices == {1, 7}

\* roof_params of create_city as it is before the loop.
RoofParamsTemplate ==
    [flat |-> [roof_thickness |-> 30, slope |-> 500],
     gable |-> [roof_height |-> 400, axis |-> "y", slope_angle |-> 35],
     hip |-> [roof_height |-> 350, slope_angle |-> 30],
     pyramid |-> [roof_height |-> 500],
     shed |-> [roof_height |-> 300, slope_direction |-> "north",
               slope_angle |-> 25],
     mansard |-> [roof_height |-> 400, lower_slope |-> 70,
                  upper_slope |-> 20],
     butterfly |-> [roof_height |-> 250, valley_depth |-> 120],
     sawtooth |-> [section_width |-> 400, roof_height |-> 250,
                   slope_angle |-> 25],
     curved |-> [roof_height |-> 350, num_segments |-> 10],
     solar |-> [tilt_angle |-> 15, orientation |-> "south",
                coverage |-> 700]]

\* math.ceil(math.sqrt(n)) for n >= 0.
CeilSqrt(n) == CHOOSE g \in 0..n : g * g >= n /\ (g = 0 \/ (g - 1) * (g - 1) < n)

\* grid_size of create_city.
grid_size == CeilSqrt(num_buildings)

\* spacing of create_city.
spacing == FloatDiv(city_size, grid_size)

\* The list left as it was appended.
SortByPriority_Unsorted(seq) == seq

\* list.sort(key) of Python: stable, so an element comes after those with a
\* smaller key and after the earlier ones with an equal key.
SortByPriority(seq) ==
    LET rank(k) == Cardinality({ m \in 1..Len(seq) :
                                   \/ seq[m].priority < seq[k].priority
                                   \/ /\ seq[m].priority = seq[k].priority
                                      /\ m < k }) + 1
    IN  [r \in 1..Len(seq) |-> seq[CHOOSE k \in 1..Len(seq) : rank(k) = r]]

\* The cells of a g x g grid in the order the double loop of create_city
\* appends them: i in the outer loop, j in the inner one, priority = j.
AppendedPositions(g) ==
    [k \in 1..(g * g) |->
        [i |-> (k - 1) \div g, j |-> (k - 1) % g, priority |-> (k - 1) % g]]

\* The roof types the loop may draw for a cell with the given grid_y, by
\* whether random.random() fell below the threshold of its zone (the middle
\* zone draws no such number).
RoofTypeDraws(grid_y, below) ==
    IF 3 * grid_y < grid_size
    THEN (IF below THEN {"solar", "gable", "shed"} ELSE roof_types)
    ELSE IF 3 * grid_y < 2 * grid_size
    THEN (IF below THEN {} ELSE roof_types)
    ELSE (IF below THEN {"flat", "gable", "hip", "mansard"} ELSE roof_types)

\* roof_params after the loop has written the south-facing values into it.
TemplateAfterDraw(tpl, grid_y, below, t) ==
    IF 3 * grid_y < grid_size /\ below /\ t = "shed"
    THEN [tpl EXCEPT !.shed.slope_direction = "south"]
    ELSE IF 3 * grid_y < grid_size /\ below /\ t = "gable"
    THEN [tpl EXCEPT !.gable.axis = "x"]
    ELSE tpl

\* CurrentRoofParams with the shed left facing the way the template says and
\* the gable on the axis of the template.
CurrentRoofParams_KeepTemplate(tpl, t) ==
    IF t = "gable"
    THEN { [tpl.gable EXCEPT !.slope_angle = s] : s \in {25} }
    ELSE IF t = "shed"
    THEN { [tpl.shed EXCEPT !.slope_angle = s] : s \in {35} }
    ELSE IF t = "solar"
    THEN { [tpl.solar EXCEPT !.tilt_angle = a, !.orientation = o,
                             !.coverage = c] :
             a \in {30}, o \in {"south", "southeast", "southwest"},
             c \in {900} }
    ELSE {tpl[t]}

\* The values current_roof_params may take: a copy of the template entry,
\* with the random axis, direction or orientation written over it; each
\* random.uniform is tried with one end of its range.
CurrentRoofParams(tpl, t) ==
    IF t = "gable"
    THEN { [tpl.gable EXCEPT !.axis = a, !.slope_angle = s] :
             a \in {"x", "y"}, s \in {25} }
    ELSE IF t = "shed"
    THEN { [tpl.shed EXCEPT !.slope_direction = dir, !.slope_angle = s] :
             dir \in {"north", "south", "east", "west"}, s \in {35} }
    ELSE IF t = "solar"
    THEN { [tpl.solar EXCEPT !.tilt_angle = a, !.orientation = o,
                             !.coverage = c] :
             a \in {30}, o \in {"south", "southeast", "southwest"},
             c \in {900} }
    ELSE {tpl[t]}

CityInit ==
    /\ CityIdle
    /\ footprint = << Point3D(0, 0, 0), Point3D(1000, 0, 0),
                      Point3D(1000, 1000, 0), Point3D(0, 1000, 0) >>
    /\ height = 300
    /\ roof_type = ""
    /\ roof_params = << >>
    /\ roof_faces = << >>
    /\ solar_panels = << >>
    /\ status = "ready"
    /\ raised = ""
    /\ roof_props = << >>
    /\ caught = ""
    /\ analysis_grids = << >>
    /\ analysis_results = << >>
    /\ solar_potential = << >>
    /\ analysis_period = << >>
    /\ printed = << >>
    /\ rooms = << >>
    /\ given_normal = up_vector
    /\ azimuths = << >>

city_unchanged ==
    UNCHANGED <<footprint, height, roof_type, roof_params, roof_faces,
                solar_panels, status, raised, testovani_vars, ok_vars,
                analysis_period, printed, rooms, azimuth_vars, earlier_run>>

\* create_city(n, size) up to its loop: the grid and the spacing.
CreateCity(n, size) ==
    /\ city_status = "idle"
    /\ num_buildings' = n
    /\ city_size' = size
    /\ roof_params_template' = RoofParamsTemplate
    /\ buildings_done' = 0
    /\ building_assignment' = << >>
    /\ building_raised' = ""
    /\ all_rooms' = 0
    /\ IF CeilSqrt(n) = 0
       THEN /\ city_status' = "aborted"
            /\ city_raised' = "ZeroDivisionError"
            /\ grid_positions' = << >>
       ELSE /\ city_status' = "placing"
            /\ city_raised' = ""
            /\ grid_positions' =
                   SortByPriority(AppendedPositions(CeilSqrt(n)))
    /\ city_unchanged

\* One turn of the loop of create_city, and its return after the last one.
PlaceBuilding(bt, below, t, p, offset_x, offset_y) ==
    LET pos == grid_positions[buildings_done + 1]
        building_type == building_types[bt]
        origin == Point3D(FloatAdd(FloatMul(pos.i, spacing), offset_x),
                          FloatAdd(FloatMul(pos.j, spacing), offset_y), 0)
        exception ==
            CreateBuildingException(origin, building_type.width,
                                    building_type.depth, building_type.height,
                                    building_type.num_floors, t, p)
    IN  /\ city_status = "placing"
        /\ buildings_done < num_buildings
        /\ roof_params_template' =
               TemplateAfterDraw(roof_params_template, pos.j, below, t)
        /\ building_assignment' =
               [grid_x |-> pos.i, grid_y |-> pos.j, building_type |-> bt,
                favoured |-> below, roof_type |-> t, roof_params |-> p,
                origin |-> origin]
        /\ building_raised' = exception
        /\ IF exception # ""
           THEN /\ city_status' = "aborted"
                /\ city_raised' = exception
                /\ UNCHANGED <<buildings_done, all_rooms>>
           ELSE /\ buildings_done' = buildings_done + 1
                /\ all_rooms' = all_rooms + building_type.num_floors
                /\ city_status' = IF buildings_done + 1 = num_buildings
                                  THEN "returned" ELSE "placing"
                /\ city_raised' = ""
        /\ UNCHANGED <<num_buildings, city_size, grid_positions>>
        /\ city_unchanged

\* The city sizes tried: the default and infinity.
CitySizes == {10000, float_inf}

CityNext ==
    \/ \E n \in 0..MaxBuildings : \E size \in CitySizes : CreateCity(n, size)
    \/ /\ city_status = "placing"
       /\ buildings_done < num_buildings
       /\ LET grid_y == grid_positions[buildings_done + 1].j
              free_x(bt) == FloatSub(spacing, building_types[bt].width)
              free_y(bt) == FloatSub(spacing, building_types[bt].depth)
          IN  \E bt \in BuildingTypeChoices : \E below \in BOOLEAN :
                \E t \in RoofTypeDraws(grid_y, below) :
                  \E p \in CurrentRoofParams(
                               TemplateAfterDraw(roof_params_template,
                                                 grid_y, below, t), t) :
                    \E offset_x \in Uniform(free_x(bt)) :
                      \E offset_y \in Uniform(free_y(bt)) :
                        PlaceBuilding(bt, below, t, p, offset_x, offset_y)

CitySpec == CityInit /\ [][CityNext]_vars

----------------------------------------------------------------------------
(* Two calls of create_city in one process.  create_city has the parameters
   num_buildings and city_size and no other; every draw comes from the
   functions of the random module, which share the generator of the
   process. *)

\* The arguments of the two calls: one building, so that the last
\* assignment is the whole layout.
RunArguments == { <<1, 10000>>, <<1, 20000>> }

\* A second call of create_city after the first has returned.
CallAgain ==
    /\ city_status = "returned"
    /\ earlier_run = << >>
    /\ earlier_run' = [num_buildings |-> num_buildings,
                       city_size |-> city_size,
                       building_assignment |-> building_assignment]
    /\ num_buildings' = 0
    /\ city_size' = 0
    /\ roof_params_template' = << >>
    /\ buildings_done' = 0
    /\ building_assignment' = << >>
    /\ building_raised' = ""
    /\ all_rooms' = 0
    /\ city_status' = "idle"
    /\ city_raised' = ""
    /\ grid_positions' = << >>
    /\ UNCHANGED <<footprint, height, roof_type, roof_params, roof_faces,
                   solar_panels, status, raised, testovani_vars, ok_vars,
                   analysis_period, printed, rooms, azimuth_vars>>

TwoRunsNext ==
    \/ \E a \in RunArguments : CreateCity(a[1], a[2])
    \/ /\ city_status = "placing"
       /\ buildings_done < num_buildings
       /\ LET grid_y == grid_positions[buildings_done + 1].j
              free_x(bt) == FloatSub(spacing, building_types[bt].width)
              free_y(bt) == FloatSub(spacing, building_types[bt].depth)
          IN  \E bt \in BuildingTypeChoices : \E below \in BOOLEAN :
                \E t \in RoofTypeDraws(grid_y, below) :
                  \E p \in CurrentRoofParams(
                               TemplateAfterDraw(roof_params_template,
                                                 grid_y, below, t), t) :
                    \E offset_x \in Uniform(free_x(bt)) :
                      \E offset_y \in Uniform(free_y(bt)) :
                        PlaceBuilding(bt, below, t, p, offset_x, offset_y)
    \/ CallAgain

TwoRunsSpec == CityInit /\ [][TwoRunsNext]_vars

----------------------------------------------------------------------------
(* Properties *)

\* The set of vertices of a face.
Vertices(f) == {f[k] : k \in 1..Len(f)}

\* C1: for a rectangular footprint and a coverage in [0, 1], every vertex of
\* every panel face returned by create_solar_roof lies inside the footprint's
\* bounds min_x..max_x, min_y..max_y.
C1_PanelsInsideFootprint ==
    (/\ status = "built"
     /\ roof_type = "solar"
     /\ footprint \in RectFootprints
     /\ Get(roof_params, "coverage", 800) \in 0..1000)
    => LET b == BBox(footprint)
       IN  \A k \in 1..Len(solar_panels) : \A v \in Vertices(solar_panels[k]) :
              /\ b.min_x <= v.x /\ v.x <= b.max_x
              /\ b.min_y <= v.y /\ v.y <= b.max_y

\* C2: the pyramid generator returns the same faces, vertex for vertex, as the
\* hip generator called with the same footprint, height and parameters,
\* defaults included.
C2_PyramidSameAsHip ==
    (status = "built" /\ roof_type = "pyramid")
    => roof_faces = CreateRoofFaces(footprint, height, "hip", roof_params)

\* C3: create_gable_roof returns 4 faces: two four-vertex slope faces that
\* share two ridge points and two three-vertex gable ends, each reaching one
\* ridge point; the ridge is at least the explicit roof_height and at least
\* half_span * tan(slope_angle) above the base; the 10x10 footprint at height
\* 10 with roof_height 4, axis 'y', slope_angle 30 has its ridge at z = 14.
C3_GableFourFaces ==
    (status = "built" /\ roof_type = "gable")
    => LET b == BBox(footprint)
           axis == Get(roof_params, "axis", "y")
           half_span == IF axis = "y" THEN IntDiv(b.max_x - b.min_x, 2)
                        ELSE IntDiv(b.max_y - b.min_y, 2)
           common == Vertices(roof_faces[1]) \cap Vertices(roof_faces[2])
       IN  /\ Len(roof_faces) = 4
           /\ Len(roof_faces[1]) = 4 /\ Len(roof_faces[2]) = 4
           /\ Len(roof_faces[3]) = 3 /\ Len(roof_faces[4]) = 3
           /\ \E r1, r2 \in common :
                /\ r1 # r2
                /\ r1.z = r2.z
                /\ r1.z - height >= Get(roof_params, "roof_height", 300)
                /\ r1.z - height
                     >= Scaled(half_span,
                               Tan(Get(roof_params, "slope_angle", 30)))
                /\ r1 \in Vertices(roof_faces[3])
                /\ r2 \in Vertices(roof_faces[4])
                /\ (/\ footprint = Rect(0, 0, 1000, 1000)
                    /\ height = 1000
                    /\ roof_params = [roof_height |-> 400, axis |-> "y",
                                      slope_angle |-> 30])
                   => r1.z = 1400

C3_Witness ==
    /\ status = "built"
    /\ roof_type = "gable"
    /\ footprint = Rect(0, 0, 1000, 1000)
    /\ height = 1000
    /\ roof_params = [roof_height |-> 400, axis |-> "y", slope_angle |-> 30]
    /\ Len(roof_faces) = 4
    /\ roof_faces[1][3].z = 1400

\* C4: for a rectangular footprint create_hip_roof returns 4 faces of 3
\* vertices: two adjacent footprint corners at the base height and one common
\* apex above the footprint centre, at base height + max(explicit roof_height,
\* min(width, depth) / 2 * tan(slope_angle)).
C4_HipFourTriangles ==
    (status = "built" /\ roof_type = "hip" /\ footprint \in RectFootprints)
    => LET b == BBox(footprint)
           span == IntDiv(Min2(b.max_x - b.min_x, b.max_y - b.min_y), 2)
           apex == Point3D(IntDiv(b.min_x + b.max_x, 2),
                           IntDiv(b.min_y + b.max_y, 2),
                           height
                           + Max2(Get(roof_params, "roof_height", 250),
                                  Scaled(span,
                                         Tan(Get(roof_params, "slope_angle",
                                                 25)))))
           corner(k) == Point3D(footprint[k].x, footprint[k].y, height)
       IN  /\ Len(roof_faces) = 4
           /\ \A i \in 1..4 :
                /\ Len(roof_faces[i]) = 3
                /\ roof_faces[i][3] = apex
                /\ \E k \in 1..4 :
                     /\ roof_faces[i][1] = corner(k)
                     /\ roof_faces[i][2] = corner((k % 4) + 1)
           /\ \A i, j \in 1..4 :
                i # j => roof_faces[i][1] # roof_faces[j][1]

C4_Witness ==
    /\ status = "built"
    /\ roof_type = "hip"
    /\ footprint = Rect(0, 0, 1000, 600)
    /\ roof_params = [roof_height |-> 100, slope_angle |-> 45]
    /\ Len(roof_faces) = 4
    /\ roof_faces[1][3] = Point3D(500, 300, height + 300)

\* C5: for every footprint and section_width create_sawtooth_roof completes,
\* the sections are contiguous, the first starts at min_x, the last ends at
\* max_x, and their widths x2 - x1 sum to the footprint width.
C5_SawtoothSectionsFillWidth ==
    (status # "ready" /\ roof_type = "sawtooth")
    => LET b == BBox(footprint)
           n == Len(roof_faces)
           x1(i) == roof_faces[i][1].x
           x2(i) == roof_faces[i][2].x
       IN  /\ raised = ""
           /\ n >= 1
           /\ x1(1) = b.min_x
           /\ x2(n) = b.max_x
           /\ \A i \in 1..(n - 1) : x2(i) = x1(i + 1)
           /\ SeqSum([i \in 1..n |-> x2(i) - x1(i)]) = b.max_x - b.min_x

\* C6: with slope = 0 the flat generator produces exactly one face, with one
\* vertex per footprint point at the same (x, y), every vertex at
\* z = base height + thickness.
C6_FlatZeroSlope ==
    (/\ status = "built"
     /\ roof_type = "flat"
     /\ Get(roof_params, "slope", 0) = 0)
    => /\ Len(roof_faces) = 1
       /\ Len(roof_faces[1]) = Len(footprint)
       /\ \A k \in 1..Len(footprint) :
            /\ roof_faces[1][k].x = footprint[k].x
            /\ roof_faces[1][k].y = footprint[k].y
            /\ roof_faces[1][k].z
                 = height + Get(roof_params, "roof_thickness", 30)

C6_Witness ==
    /\ status = "built"
    /\ roof_type = "flat"
    /\ footprint \in OtherFootprints
    /\ Len(footprint) = 5
    /\ roof_params = [roof_thickness |-> 50, slope |-> 0]
    /\ Len(roof_faces) = 1
    /\ roof_faces[1][3] = Point3D(600, 300, height + 50)

\* C7: in create_shed_roof a given slope_angle replaces the explicit
\* roof_height by span * tan(slope_angle), span being the y-extent for
\* north/south and the x-extent for east/west; the two vertices on the edge the
\* direction names are at height + roof_height, the two opposite at height
\* (width 10, depth 6, north, 25 degrees: the edge at max_y is about 2.80
\* above the edge at min_y).
C7_ShedAngleReplacesHeight ==
    (/\ status = "built"
     /\ roof_type = "shed"
     /\ "slope_angle" \in DOMAIN roof_params
     /\ Get(roof_params, "slope_direction", "north") \in Directions)
    => LET b == BBox(footprint)
           dir == Get(roof_params, "slope_direction", "north")
           span == IF dir \in {"north", "south"} THEN b.max_y - b.min_y
                   ELSE b.max_x - b.min_x
           rh == Scaled(span, Tan(roof_params.slope_angle))
           high(v) == \/ dir = "north" /\ v.y = b.max_y
                      \/ dir = "south" /\ v.y = b.min_y
                      \/ dir = "east" /\ v.x = b.max_x
                      \/ dir = "west" /\ v.x = b.min_x
           face == roof_faces[1]
       IN  /\ Len(roof_faces) = 1
           /\ Len(face) = 4
           /\ Cardinality({k \in 1..4 : high(face[k])}) = 2
           /\ \A k \in 1..4 :
                face[k].z = IF high(face[k]) THEN height + rh ELSE height
           /\ (/\ b.max_x - b.min_x = 1000
               /\ b.max_y - b.min_y = 600
               /\ dir = "north"
               /\ roof_params.slope_angle = 25)
              => \A k \in 1..4 :
                    face[k].y = b.max_y
                    => Abs(face[k].z - height - 280) <= 1

C7_Witness ==
    /\ status = "built"
    /\ roof_type = "shed"
    /\ footprint = Rect(0, 0, 1000, 600)
    /\ roof_params = [roof_height |-> 200, slope_direction |-> "north",
                      slope_angle |-> 25]
    /\ Len(roof_faces) = 1
    /\ roof_faces[1][3].z = height + 279
    /\ roof_faces[1][1].z = height

\* C8: for every tag and parameter record the roof mesh create_roof returns
\* has at least one face, and every returned face, roof or panel, has at
\* least 3 vertices.
C8_MeshNonEmpty ==
    status = "built"
    => /\ Len(roof_faces) >= 1
       /\ \A i \in 1..Len(roof_faces) : Len(roof_faces[i]) >= 3
       /\ \A i \in 1..Len(solar_panels) : Len(solar_panels[i]) >= 3

\* C9: every suitability the scorers record lies in [0, 1], whatever the
\* slopes, azimuths and weighted exposures of the batch (one face, several
\* faces, all faces tied).
C9_SuitabilityInUnitInterval ==
    /\ status = "scored"
       => \A i \in 1..Len(roof_props) :
             /\ 0 <= roof_props[i].suitability
             /\ roof_props[i].suitability <= 1000
    /\ status = "ranked"
       => \A i \in 1..Len(solar_potential) :
             /\ 0 <= solar_potential[i].suitability
             /\ solar_potential[i].suitability <= 1000

C9_Witness ==
    /\ status = "scored"
    /\ Len(roof_props) >= 2
    /\ \E i, j \in 1..Len(roof_props) :
          /\ roof_props[i].weighted_hours > roof_props[j].weighted_hours
          /\ roof_props[i].suitability > roof_props[j].suitability
          /\ roof_props[j].tilt < 0

\* C10: the slope the scorers record for a roof face the generators produce
\* lies in [0, 90] degrees, whatever the winding of the face.
C10_SlopeInRange ==
    /\ status \in {"props", "access", "scored"}
       => \A i \in 1..Len(roof_props) :
             0 <= roof_props[i].tilt /\ roof_props[i].tilt <= 90
    /\ status = "ranked"
       => \A i \in 1..Len(solar_potential) :
             0 <= solar_potential[i].slope /\ solar_potential[i].slope <= 90

\* C11: the slope the scorers record is the face's angle from the horizontal:
\* a face whose normal is the up vector gets slope 0, a face whose normal is
\* horizontal gets slope 90.
C11_SlopeIsAngleFromHorizontal ==
    /\ status \in {"props", "access", "scored"}
       => \A i \in 1..Len(roof_props) :
             /\ roof_props[i].normal = Vector3D(0, 0, 1000)
                => roof_props[i].tilt = 0
             /\ (roof_props[i].normal.z = 0
                 /\ Magnitude(roof_props[i].normal) > 0)
                => roof_props[i].tilt = 90
    /\ status = "ranked"
       => \A i \in 1..Len(solar_potential) :
             /\ solar_potential[i].normal = Vector3D(0, 0, 1000)
                => solar_potential[i].slope = 0
             /\ (solar_potential[i].normal.z = 0
                 /\ Magnitude(solar_potential[i].normal) > 0)
                => solar_potential[i].slope = 90

\* C12: the azimuth computations return 180 for the normal (0, -1, 0) and 0
\* for the vertical normal (0, 0, 1); for every normal the value lies in
\* [0, 360), in (0, 180) when the normal's x is positive and in (180, 360)
\* when it is negative.
C12_AzimuthClockwiseFromNorth ==
    azimuths # << >>
    => \A a \in {azimuths.testovani, azimuths.ok} :
          /\ given_normal = Vector3D(0, 0 - 1000, 0) => a = 180
          /\ given_normal = Vector3D(0, 0, 1000) => a = 0
          /\ 0 <= a /\ a < 360
          /\ given_normal.x > 0 => (0 < a /\ a < 180)
          /\ given_normal.x < 0 => (180 < a /\ a < 360)

\* C13: of two faces of one batch with the same slope, area and exposure the
\* one whose azimuth is nearer to 180 never gets the smaller suitability, and
\* a face with azimuth 180 gets a strictly greater suitability than one with
\* azimuth 0 (slope 35 included).
C13_SuitabilityFallsWithAzimuthDeviation ==
    /\ status = "scored"
       => \A i, j \in 1..Len(roof_props) :
             (/\ roof_props[i].tilt = roof_props[j].tilt
              /\ roof_props[i].area = roof_props[j].area
              /\ roof_props[i].weighted_hours = roof_props[j].weighted_hours)
             => /\ Abs(roof_props[i].azimuth - 180)
                     <= Abs(roof_props[j].azimuth - 180)
                   => roof_props[i].suitability >= roof_props[j].suitability
                /\ (roof_props[i].azimuth = 180 /\ roof_props[j].azimuth = 0)
                   => roof_props[i].suitability > roof_props[j].suitability
    /\ status = "ranked"
       => \A i, j \in 1..Len(solar_potential) :
             (/\ solar_potential[i].slope = solar_potential[j].slope
              /\ solar_potential[i].area = solar_potential[j].area
              /\ solar_potential[i].avg_sunlight_hours
                   = solar_potential[j].avg_sunlight_hours)
             => /\ Abs(solar_potential[i].azimuth - 180)
                     <= Abs(solar_potential[j].azimuth - 180)
                   => solar_potential[i].suitability
                        >= solar_potential[j].suitability
                /\ (/\ solar_potential[i].azimuth = 180
                    /\ solar_potential[j].azimuth = 0)
                   => solar_potential[i].suitability
                        > solar_potential[j].suitability

C13_Witness ==
    /\ status = "scored"
    /\ roof_type = "hip"
    /\ \E i, j \in 1..Len(roof_props) :
          /\ roof_props[i].tilt = 35
          /\ roof_props[j].tilt = 35
          /\ roof_props[i].area = roof_props[j].area
          /\ roof_props[i].weighted_hours = roof_props[j].weighted_hours
          /\ roof_props[i].azimuth = 180
          /\ roof_props[j].azimuth = 0
          /\ roof_props[i].suitability > roof_props[j].suitability

\* True when recs holds exactly one record per face 1..n, in descending order
\* of suitability, records of equal suitability in the order of their faces.
OneRecordPerFaceSorted(recs, n) ==
    /\ Len(recs) = n
    /\ \A k \in 1..n : \E i \in 1..Len(recs) : recs[i].id = k
    /\ \A i, j \in 1..Len(recs) :
          i < j => /\ recs[i].suitability >= recs[j].suitability
                   /\ recs[i].suitability = recs[j].suitability
                      => recs[i].id < recs[j].id

\* C14: the scorer returns exactly one record per input face, ordered by
\* descending suitability, records of equal suitability in the relative order
\* their faces had in the input.
C14_OneRecordPerFaceStableOrder ==
    /\ status = "scored" => OneRecordPerFaceSorted(roof_props, Len(roof_faces))
    /\ status = "ranked"
       => OneRecordPerFaceSorted(solar_potential, Len(roof_faces))

\* C15: create_solar_roof instantiates floor(total_slots * coverage) panels,
\* total_slots = floor(width / panel_width) * floor(depth / panel_height);
\* a coverage that asks for more yields exactly total_slots panels and no
\* error; no two panels overlap: they are at least the gap apart along x or
\* along y.
C15_PanelCountClampedNoOverlap ==
    (/\ status # "ready"
     /\ roof_type = "solar"
     /\ Len(footprint) >= 3
     /\ Get(roof_params, "coverage", 800) >= 0)
    => LET b == BBox(footprint)
           total_slots == ((b.max_x - b.min_x) \div 170)
                          * ((b.max_y - b.min_y) \div 100)
           wanted == (total_slots * Get(roof_params, "coverage", 800))
                     \div 1000
           x1(k) == solar_panels[k][1].x
           x2(k) == solar_panels[k][2].x
           y1(k) == solar_panels[k][1].y
           y2(k) == solar_panels[k][3].y
       IN  /\ CreateRoofException(footprint, roof_type, roof_params) = ""
           /\ status \in {"built", "building"}
              => /\ Len(solar_panels)
                      = IF wanted > total_slots THEN total_slots ELSE wanted
                 /\ \A k, l \in 1..Len(solar_panels) :
                      k # l
                      => \/ x2(k) + 10 <= x1(l) \/ x2(l) + 10 <= x1(k)
                         \/ y2(k) + 10 <= y1(l) \/ y2(l) + 10 <= y1(k)

C15_Witness ==
    /\ status = "built"
    /\ roof_type = "solar"
    /\ footprint = Rect(0, 0, 1000, 600)
    /\ roof_params = [tilt_angle |-> 30, orientation |-> "south",
                      coverage |-> 1500]
    /\ Len(solar_panels) = 30
    /\ solar_panels[2][1].y = solar_panels[1][3].y + 10

\* C16: create_roof called with a tag that is none of the ten known ones emits
\* a warning and returns the flat roof: one face with every vertex at
\* z = height + 0.3, and no panels.
C16_UnknownTagWarnsAndFallsBackToFlat ==
    (status = "built" /\ roof_type \notin roof_types)
    => /\ printed # << >>
       /\ Len(roof_faces) = 1
       /\ \A v \in Vertices(roof_faces[1]) : v.z = height + 30
       /\ solar_panels = << >>

\* C17: when the width, depth or height handed to create_building is zero or
\* negative, synthesis ends with an error reported to the caller, before any
\* face is generated: no roof face and no panel is returned.
C17_NonPositiveDimensionIsAnError ==
    (/\ status \in {"building", "failed"}
     /\ Len(footprint) = 4
     /\ \/ footprint[2].x - footprint[1].x <= 0
        \/ footprint[3].y - footprint[2].y <= 0
        \/ height <= 0)
    => /\ status = "failed"
       /\ raised # ""
       /\ roof_faces = << >>
       /\ solar_panels = << >>

\* C18: every generator rejects a footprint with fewer than 3 points with an
\* error (InvalidFootprint; any exception is taken for it here) and produces
\* no face from it.
C18_ShortFootprintRejected ==
    (status # "ready" /\ Len(footprint) < 3)
    => /\ status = "failed"
       /\ raised # ""
       /\ roof_faces = << >>
       /\ solar_panels = << >>

\* C19: when the scorer is given no sun-direction sample (an empty analysis
\* period, or no hour with the sun above the horizon), the exposure
\* computation completes without raising anything, and every face gets
\* weighted exposure 0 and exposure factor 0.
C19_NoSamplesGiveZeroExposure ==
    /\ (status \in {"access", "scored"} /\ SunVectors(analysis_period) = << >>)
       => /\ caught = ""
          /\ raised = ""
          /\ \A i \in 1..Len(roof_props) :
                /\ roof_props[i].weighted_hours = 0
                /\ WeightedFactor(roof_props, i) = 0
    /\ (status \in {"analysed", "ranked"}
        /\ SunVectors(analysis_period) = << >>)
       => /\ raised = ""
          /\ \A g \in 1..Len(analysis_results) : analysis_results[g] = 0
          /\ status = "ranked"
             => \A i \in 1..Len(solar_potential) :
                   solar_potential[i].avg_sunlight_hours = 0

\* C20: when create_building fails for one building inside create_city, the
\* run is not aborted: create_city goes on to the remaining buildings and
\* returns the city, so once it has ended it has returned and no exception
\* has left it.
C20_BuildingFailureDoesNotAbortCity ==
    (building_raised # "" /\ city_status # "placing")
    => /\ city_status = "returned"
       /\ city_raised = ""

\* C21: in create_city, a building in a cell of the southern third
\* (grid_y < grid_size / 3) whose roof type was drawn from the favoured set
\* {solar, gable, shed} is handed south-facing parameters: a shed gets
\* slope_direction 'south' and a gable gets axis 'x'.
C21_FavouredSouthCellsFaceSouth ==
    (/\ building_assignment # << >>
     /\ 3 * building_assignment.grid_y < grid_size
     /\ building_assignment.favoured)
    => /\ building_assignment.roof_type = "shed"
          => building_assignment.roof_params.slope_direction = "south"
       /\ building_assignment.roof_type = "gable"
          => building_assignment.roof_params.axis = "x"

\* C22: create_city draws from a source the caller supplies and seeds, so
\* two calls with the same arguments (create_city has no parameter but
\* num_buildings and city_size) assign the same building type, roof type,
\* parameters and origin to every building, whatever the state of the
\* generator of the process.
C22_SameArgumentsSameCity ==
    (/\ earlier_run # << >>
     /\ city_status = "returned"
     /\ earlier_run.num_buildings = num_buildings
     /\ earlier_run.city_size = city_size)
    => earlier_run.building_assignment = building_assignment

\* The cells that hold a building: the first buildings_done grid positions.
OccupiedCells ==
    { <<grid_positions[m].i, grid_positions[m].j>> : m \in 1..buildings_done }

\* C23: once its loop runs, create_city(n, ...) works on a square grid of
\* ceil(sqrt(n)) cells per side, every building goes to a cell of its own,
\* a cell with y-index j is occupied only if every cell with a smaller
\* y-index is occupied, and create_city returns with exactly n buildings.
C23_GridCellsBySouthness ==
    city_status \in {"placing", "returned"}
    => /\ grid_size * grid_size >= num_buildings
       /\ (grid_size - 1) * (grid_size - 1) < num_buildings
       /\ Len(grid_positions) = grid_size * grid_size
       /\ \A m \in 1..Len(grid_positions) :
             /\ grid_positions[m].i \in 0..(grid_size - 1)
             /\ grid_positions[m].j \in 0..(grid_size - 1)
       /\ Cardinality(OccupiedCells) = buildings_done
       /\ \A c \in OccupiedCells :
             \A x \in 0..(grid_size - 1) : \A y \in 0..(grid_size - 1) :
                y < c[2] => <<x, y>> \in OccupiedCells
       /\ (buildings_done > 0 /\ building_raised = "")
          => /\ building_assignment.grid_x = grid_positions[buildings_done].i
             /\ building_assignment.grid_y = grid_positions[buildings_done].j
       /\ city_status = "returned" => buildings_done = num_buildings

\* Three buildings on the 2 x 2 grid: the southern row is full and the third
\* building stands in the northern row.
C23_Witness ==
    /\ city_status = "returned"
    /\ num_buildings = 3
    /\ grid_size = 2
    /\ buildings_done = 3
    /\ building_assignment.grid_y = 1
    /\ OccupiedCells = { <<0, 0>>, <<1, 0>>, <<0, 1>> }

\* True when the sun of the sample is above the horizon and the angle
\* between the normal and the reversed sun vector is below 90 degrees: the
\* dot product reaches one thousandth of the product of the lengths, the
\* smallest cosine the fixed point tells from 0.
FacesSun(normal, sun) ==
    /\ sun.altitude > 0
    /\ (normal.x * (0 - sun.sun_vector.x) + normal.y * (0 - sun.sun_vector.y)
        + normal.z * (0 - sun.sun_vector.z)) * 1000
       >= Magnitude(normal) * Magnitude(sun.sun_vector)

\* The samples of the period that light a face with this normal.
SunlitSamples(normal, hoys) ==
    Cardinality({ k \in 1..Len(hoys) : FacesSun(normal, hoys[k]) })

\* The samples of the period with the sun above the horizon.
DaySamples(hoys) ==
    Cardinality({ k \in 1..Len(hoys) : hoys[k].altitude > 0 })

\* C24: in both scorers a sun sample counts for a face exactly when the sun
\* is above the horizon and the angle between the face normal and the
\* reversed sun vector is strictly below 90 degrees: the sunlit hours of
\* testovani_08_05 and the sunlit percentage of Ok count these samples and
\* no others.
C24_SunlitIffAngleBelowNinety ==
    /\ (status \in {"access", "scored"} /\ caught = "")
       => \A i \in 1..Len(roof_props) :
             roof_props[i].sun_hours
                 = SunlitSamples(roof_props[i].normal, analysis_period)
    /\ (status \in {"analysed", "ranked"} /\ DaySamples(analysis_period) > 0)
       => \A g \in 1..Len(analysis_results) :
             analysis_results[g]
                 = IntDiv(SunlitSamples(analysis_grids[g], analysis_period)
                          * 100, DaySamples(analysis_period))

\* The suitability of a record whose exposure factor is wf (thousandths).
SuitabilityWith(r, wf) ==
    IntDiv(250 * TiltFactor(r.tilt) + 250 * AzimuthFactor(r.azimuth)
           + 500 * wf, 1000)

\* C25: calculate_solar_potential takes the minimum and the maximum of the
\* weighted exposure over the whole batch.  When they differ by at least
\* 0.001 the face with the maximal exposure is scored with exposure factor
\* exactly 1 and the face with the minimal exposure with 0; when all faces
\* tie nothing is raised and every face is scored with exposure factor 0.
C25_ExposureNormalisedOverBatch ==
    (status = "scored" /\ roof_props # << >>)
    => LET hi == SeqMax(WeightedHours(roof_props))
           lo == SeqMin(WeightedHours(roof_props))
       IN  /\ raised = ""
           /\ \A i \in 1..Len(roof_props) :
                 /\ (hi - lo >= 1 /\ roof_props[i].weighted_hours = hi)
                    => roof_props[i].suitability
                           = SuitabilityWith(roof_props[i], 1000)
                 /\ (hi - lo >= 1 /\ roof_props[i].weighted_hours = lo)
                    => roof_props[i].suitability
                           = SuitabilityWith(roof_props[i], 0)
                 /\ hi = lo
                    => roof_props[i].suitability
                           = SuitabilityWith(roof_props[i], 0)

\* A scored batch whose smallest weighted exposure is above zero and below
\* its largest one.
C25_Witness ==
    /\ status = "scored"
    /\ caught = ""
    /\ Len(roof_props) >= 2
    /\ SeqMin(WeightedHours(roof_props)) > 0
    /\ SeqMax(WeightedHours(roof_props)) > SeqMin(WeightedHours(roof_props))

\* C26: create_mansard_roof returns exactly 5 faces.  The first four have
\* four vertices each and join one edge of the bounding rectangle at the base
\* height to the ring set in by 25% of the width and depth, 70% of
\* roof_height above the base; the fifth is the flat cap at the top of the
\* roof, every vertex at z = base height + roof_height.
C26_MansardFiveFacesCapOnTop ==
    (status = "built" /\ roof_type = "mansard")
    => LET b == BBox(footprint)
           rh == Get(roof_params, "roof_height", 300)
           inset_x == Scaled(b.max_x - b.min_x, 250)
           inset_y == Scaled(b.max_y - b.min_y, 250)
           ring == { <<b.min_x + inset_x, b.min_y + inset_y>>,
                     <<b.max_x - inset_x, b.min_y + inset_y>>,
                     <<b.max_x - inset_x, b.max_y - inset_y>>,
                     <<b.min_x + inset_x, b.max_y - inset_y>> }
       IN  /\ Len(roof_faces) = 5
           /\ \A i \in 1..4 :
                 /\ Len(roof_faces[i]) = 4
                 /\ roof_faces[i][1].z = height
                 /\ roof_faces[i][2].z = height
                 /\ roof_faces[i][1].x \in {b.min_x, b.max_x}
                 /\ roof_faces[i][1].y \in {b.min_y, b.max_y}
                 /\ roof_faces[i][2].x \in {b.min_x, b.max_x}
                 /\ roof_faces[i][2].y \in {b.min_y, b.max_y}
                 /\ roof_faces[i][1] # roof_faces[i][2]
                 /\ \A k \in 3..4 :
                       /\ roof_faces[i][k].z = height + Scaled(rh, 700)
                       /\ <<roof_faces[i][k].x, roof_faces[i][k].y>> \in ring
           /\ \A k \in 1..Len(roof_faces[5]) :
                 roof_faces[5][k].z = height + rh

\* The vertices of a panel that lie on its edge with the largest y ("n"),
\* smallest y ("s"), largest x ("e") or smallest x ("w").
EdgeVertices(panel, side) ==
    LET xs == { panel[k].x : k \in 1..Len(panel) }
        ys == { panel[k].y : k \in 1..Len(panel) }
    IN  { k \in 1..Len(panel) :
            \/ side = "n" /\ \A y \in ys : panel[k].y >= y
            \/ side = "s" /\ \A y \in ys : panel[k].y <= y
            \/ side = "e" /\ \A x \in xs : panel[k].x >= x
            \/ side = "w" /\ \A x \in xs : panel[k].x <= x }

\* C27: for orientation south, north, east or west every panel of
\* create_solar_roof is a 1.7 x 1.0 rectangle in x and y whose two vertices on
\* one edge, the one the orientation selects, are raised by
\* panel depth * sin(tilt_angle) (depth 1.0 for south and north, 1.7 for east
\* and west), while the other two stay at z = base height + panel thickness.
C27_TiltRaisesOneEdge ==
    (/\ status \in {"built", "building"}
     /\ roof_type = "solar"
     /\ Get(roof_params, "orientation", "south") \in Directions)
    => LET o == Get(roof_params, "orientation", "south")
           tilt_angle == Get(roof_params, "tilt_angle", 15)
           z0 == height + panel_thickness
           side == IF o = "south" THEN "n" ELSE IF o = "north" THEN "s"
                   ELSE IF o = "east" THEN "e" ELSE "w"
           depth == IF o \in {"south", "north"} THEN panel_height
                    ELSE panel_width
       IN  \A m \in 1..Len(solar_panels) :
              LET panel == solar_panels[m]
              IN  /\ Len(panel) = 4
                  /\ panel[2].x = panel[1].x + panel_width
                  /\ panel[2].y = panel[1].y
                  /\ panel[3].x = panel[1].x + panel_width
                  /\ panel[3].y = panel[1].y + panel_height
                  /\ panel[4].x = panel[1].x
                  /\ panel[4].y = panel[1].y + panel_height
                  /\ Cardinality(EdgeVertices(panel, side)) = 2
                  /\ \A k \in 1..4 :
                        panel[k].z
                            = IF k \in EdgeVertices(panel, side)
                              THEN z0 + Scaled(depth, Sin(tilt_angle))
                              ELSE z0

\* Panels facing east at a tilt of 30 degrees: the two vertices on the edge
\* with the largest x are 0.85 above the other two.
C27_Witness ==
    /\ status = "built"
    /\ roof_type = "solar"
    /\ roof_params # << >>
    /\ roof_params.orientation = "east"
    /\ roof_params.tilt_angle = 30
    /\ Len(solar_panels) >= 2
    /\ solar_panels[1][2].z = height + panel_thickness + 85
    /\ solar_panels[1][3].z = height + panel_thickness + 85
    /\ solar_panels[1][1].z = height + panel_thickness

C28_ParamsIndependentOfEarlierBuildings ==
    building_assignment # << >>
    => building_assignment.roof_params
           \in CurrentRoofParams(RoofParamsTemplate,
                                 building_assignment.roof_type)

\* A later building with a shed roof drawn outside the favoured set, facing
\* north, after an earlier building made the template's shed face south.
C28_Witness ==
    /\ buildings_done >= 2
    /\ roof_params_template.shed.slope_direction = "south"
    /\ building_assignment.roof_type = "shed"
    /\ ~building_assignment.favoured
    /\ building_assignment.roof_params.slope_direction = "north"

\* C29: for a finite city_size, the footprint of every building of
\* create_city, [origin.x, origin.x + width] x [origin.y, origin.y + depth],
\* lies inside the grid cell of the building,
\* [grid_x * spacing, (grid_x + 1) * spacing] x
\* [grid_y * spacing, (grid_y + 1) * spacing], so that no two buildings
\* overlap.
C29_FootprintInsideOwnCell ==
    (building_assignment # << >> /\ IsFinite(city_size))
    => LET a == building_assignment
           building_type == building_types[a.building_type]
       IN  /\ a.grid_x * spacing <= a.origin.x
           /\ a.origin.x + building_type.width <= (a.grid_x + 1) * spacing
           /\ a.grid_y * spacing <= a.origin.y
           /\ a.origin.y + building_type.depth <= (a.grid_y + 1) * spacing

====
